---- MODULE Spec2Model ----
(***************************************************************************)
(* A model of the LinkedIn feed scraper's incremental synchronisation:     *)
(* linkedin_scraper.py (token decoding, link/text resolution, the item     *)
(* loop of scrape_posts, save_posts / load_existing_posts, main) and       *)
(* generate_rss.py (load_posts, generate_feed).                            *)
(***************************************************************************)
EXTENDS Integers, Sequences, FiniteSets, TLC

(***************************************************************************)
(* Unbounded naturals.  Activity ids are about 2^63 and Python's int is    *)
(* unbounded, so a natural is a sequence of decimal digits, most           *)
(* significant first, without leading zeros (zero is the empty sequence).  *)
(***************************************************************************)
Digits == 0..9

\* Python's None
None == [none |-> TRUE]

IsZero(n) == n = <<>>

RECURSIVE StripZeros(_)
StripZeros(s) ==
    IF s = <<>> THEN <<>>
    ELSE IF Head(s) = 0 THEN StripZeros(Tail(s)) ELSE s

RECURSIVE SmallDigits(_)
\* the digits of a machine-sized natural
SmallDigits(k) ==
    IF k = 0 THEN <<>> ELSE Append(SmallDigits(k \div 10), k % 10)

RECURSIVE DivSmallAcc(_, _, _, _, _)
DivSmallAcc(n, k, i, r, q) ==
    IF i > Len(n) THEN [q |-> StripZeros(q), r |-> r]
    ELSE LET cur == r * 10 + n[i]
         IN  DivSmallAcc(n, k, i + 1, cur % k, Append(q, cur \div k))

\* n divided by a machine-sized k (k < 2^27): quotient q and remainder r
DivSmall(n, k) == DivSmallAcc(n, k, 1, 0, <<>>)

RECURSIVE MulAddAcc(_, _, _, _, _)
MulAddAcc(n, k, i, carry, out) ==
    IF i = 0 THEN SmallDigits(carry) \o out
    ELSE LET cur == n[i] * k + carry
         IN  MulAddAcc(n, k, i - 1, cur \div 10, <<cur % 10>> \o out)

\* n * k + a for machine-sized k and a (k, a < 2^27)
MulAdd(n, k, a) == StripZeros(MulAddAcc(n, k, Len(n), a, <<>>))

RECURSIVE LexLess(_, _, _)
LexLess(a, b, i) ==
    IF i > Len(a) THEN FALSE
    ELSE IF a[i] # b[i] THEN a[i] < b[i]
    ELSE LexLess(a, b, i + 1)

\* a < b
Less(a, b) ==
    IF Len(a) # Len(b) THEN Len(a) < Len(b) ELSE LexLess(a, b, 1)

IsOdd(n) == n # <<>> /\ n[Len(n)] % 2 = 1

\* the value of a natural with at most 9 digits
RECURSIVE SmallValue(_)
SmallValue(n) ==
    IF n = <<>> THEN 0 ELSE SmallValue(SubSeq(n, 1, Len(n) - 1)) * 10 + n[Len(n)]

\* the widest power of two that DivSmall and MulAdd take in one step
ChunkBits == 27

Min(a, b) == IF a < b THEN a ELSE b

RECURSIVE DivModPow2(_, _)
\* n >> e and n mod 2^e: [q, r]
DivModPow2(n, e) ==
    IF e = 0 THEN [q |-> n, r |-> <<>>]
    ELSE LET c    == Min(e, ChunkBits)
             d    == DivSmall(n, 2^c)
             rest == DivModPow2(d.q, e - c)
         IN  [q |-> rest.q, r |-> MulAdd(rest.r, 2^c, d.r)]

RECURSIVE DivPow2(_, _)
\* n >> e
DivPow2(n, e) ==
    IF e = 0 THEN n
    ELSE LET c == Min(e, ChunkBits)
         IN  DivPow2(DivSmall(n, 2^c).q, e - c)

RECURSIVE MulPow2(_, _)
\* n << e
MulPow2(n, e) ==
    IF e = 0 THEN n
    ELSE LET c == Min(e, ChunkBits)
         IN  MulPow2(MulAdd(n, 2^c, 0), e - c)

RECURSIVE SmallBitLen(_)
SmallBitLen(k) == IF k = 0 THEN 0 ELSE 1 + SmallBitLen(k \div 2)

RECURSIVE BitLen(_)
\* the number of binary digits of n
BitLen(n) ==
    IF Len(n) > 9 THEN ChunkBits + BitLen(DivPow2(n, ChunkBits))
    ELSE SmallBitLen(SmallValue(n))

\* n / 2^e rounded to the nearest integer, ties to even; sticky says that
\* nonzero bits were already dropped below n
RoundHalfEven(n, e, sticky) ==
    IF e = 0 THEN n
    ELSE LET d     == DivModPow2(n, e - 1)
             guard == IsOdd(d.q)
             q     == DivSmall(d.q, 2).q
         IN  IF guard /\ (sticky \/ d.r # <<>> \/ IsOdd(q))
             THEN MulAdd(q, 1, 1) ELSE q

(***************************************************************************)
(* IEEE-754 double arithmetic, as far as decode_linkedin_activity_id uses  *)
(* it.  A non-negative double is the pair [m, e] that stands for m / 2^e.  *)
(***************************************************************************)
MantissaBits == 53

\* scaling that gives the quotient of any n >= 1 by 1000 at least 53 bits
DivScale == 63

\* Python's int / int: the correctly rounded double nearest n / k
TrueDivide(n, k) ==
    IF n = <<>> THEN [m |-> <<>>, e |-> 0]
    ELSE LET d  == DivSmall(MulPow2(n, DivScale), k)
             sh == BitLen(d.q) - MantissaBits
         IN  [m |-> RoundHalfEven(d.q, sh, d.r # 0), e |-> DivScale - sh]

\* double * integer k, rounded to a double (x < 1, k < 2^27)
FloatTimes(x, k) ==
    LET p  == MulAdd(x.m, k, 0)
        sh == BitLen(p) - MantissaBits
    IN  IF sh <= 0 THEN [m |-> p, e |-> x.e]
        ELSE [m |-> RoundHalfEven(p, sh, FALSE), e |-> x.e - sh]

MicrosPerSecond == 1000000

\* the last second of year 9999, the largest datetime can hold
MaxDatetimeSeconds == <<2, 5, 3, 4, 0, 2, 3, 0, 0, 7, 9, 9>>

\* datetime.fromtimestamp(x, tz=utc): modf, scale the fraction to
\* microseconds, round half to even, carry into the seconds; a year past
\* 9999 raises (the result None)
FromTimestamp(x) ==
    LET parts == DivModPow2(x.m, x.e)
        whole == parts.q
        frac  == [m |-> parts.r, e |-> x.e]
        scaled == FloatTimes(frac, MicrosPerSecond)
        us    == SmallValue(RoundHalfEven(scaled.m, scaled.e, FALSE))
        sec   == IF us >= MicrosPerSecond THEN MulAdd(whole, 1, 1) ELSE whole
        usec  == IF us >= MicrosPerSecond THEN us - MicrosPerSecond ELSE us
    IN  IF Less(MaxDatetimeSeconds, sec) THEN None
        ELSE [sec |-> sec, us |-> usec, aware |-> TRUE]

(***************************************************************************)
(* decode_linkedin_activity_id.  An activity id is a string: a sequence    *)
(* of characters, a decimal digit standing for itself and the one         *)
(* member of NonDigits for any other character.                            *)
(***************************************************************************)
Chars == 0..10

NonDigits == Chars \ Digits


TimestampShift == 22

MillisPerSecond == 1000

\* int(activity_id): raises ValueError (None) unless all are digits
ParseInt(s) ==
    IF s = <<>> \/ \E i \in 1..Len(s) : s[i] \notin Digits THEN None
    ELSE [n |-> StripZeros(s)]

decode_mut_shift(activity_id) ==
    LET p == ParseInt(activity_id)
    IN  IF p = None THEN None
        ELSE FromTimestamp(TrueDivide(DivPow2(p.n, TimestampShift - 1),
                                      MillisPerSecond))

\* the datetime decoded from an activity id, or None (which is returned
\* for every exception)
decode_linkedin_activity_id(activity_id) ==
    LET p == ParseInt(activity_id)
    IN  IF p = None THEN None
        ELSE FromTimestamp(TrueDivide(DivPow2(p.n, TimestampShift),
                                      MillisPerSecond))

\* the activity id (timestamp_ms << 22) + random_bits, as the docstring of
\* decode_linkedin_activity_id gives it
EncodeActivityId(t, r) == MulAdd(MulPow2(t, TimestampShift), 1, r)

\* str(n): the base-10 string of a natural
Str(n) == IF n = <<>> THEN <<0>> ELSE n

\* the longest list of raw items in SpecLong
MaxLongStream == 102

\* the activity id of the post published at millisecond k
Token(k) == Str(EncodeActivityId(SmallDigits(k), k + 4))

(***************************************************************************)
(* Links.  A link is the record [form, id, tail, slashes, query]:          *)
(*   form     "strict": a /posts/master-concept_...activity-ID path,       *)
(*            "loose":  another /posts/...activity-ID path,                *)
(*            "update": /feed/update/urn:li:activity:ID,                   *)
(*            "other":  an address of no post (hrefs only);                *)
(*   id       the activity id in it (a string);                            *)
(*   tail     the characters that follow the id in the path;               *)
(*   slashes  the number of "/" that end the path;                         *)
(*   query    whether a "?..." part follows.                               *)
(* An href has the further field abs: whether it starts with "http".       *)
(***************************************************************************)
\* href.split("?")[0], with the host put before a relative path
BaseHref(href) ==
    [form |-> href.form, id |-> href.id, tail |-> href.tail,
     slashes |-> href.slashes, query |-> FALSE]

\* link.split('?')[0].rstrip('/')
NormalizeLink(link) == [link EXCEPT !.query = FALSE, !.slashes = 0]

\* base_href.split("activity-")[1].rstrip("/")
HrefActivityId(link) == link.id \o link.tail

\* "/posts/master-concept_" in href and "activity-" in href
IsStrictHref(href) == href.form = "strict"

\* "/posts/" in href and "activity-" in href
IsLooseHref(href) == href.form \in {"strict", "loose"}

RECURSIVE FirstHref(_, _, _)
\* the index of the first anchor that the test of strategy 2 (strict) or
\* of strategy 3 accepts, 0 when there is none
FirstHref(anchors, strict, i) ==
    IF i > Len(anchors) THEN 0
    ELSE IF strict /\ IsStrictHref(anchors[i]) THEN i
    ELSE IF ~strict /\ IsLooseHref(anchors[i]) THEN i
    ELSE FirstHref(anchors, strict, i + 1)

UpdateLink(id) ==
    [form |-> "update", id |-> id, tail |-> <<>>, slashes |-> 0,
     query |-> FALSE]

(***************************************************************************)
(* A raw item (a post element of the rendered page) is the record          *)
(*   urn      the activity id of its data-urn attribute, a string; the     *)
(*            empty string when it has no data-urn naming an activity;     *)
(*   html     the link that the strategy-1 pattern finds first in its      *)
(*            inner HTML, or None;                                         *)
(*   anchors  the hrefs of its a[href] elements, in document order;        *)
(*   sel      for each text selector, the stripped inner text of the       *)
(*            element it finds, or None when it finds none;                *)
(*   inner    the stripped inner text of the whole item, or None when      *)
(*            reading it raises;                                           *)
(*   imgs     for each image selector, the src values of its elements;     *)
(*   times    the datetime attributes of its time elements;                *)
(*   raises   whether an accessor raises while the item is processed.      *)
(* A text is the record [s, len]: an identity and a length; a text cut to  *)
(* its first 100 characters and "..." has the further field cut.           *)
(***************************************************************************)
link_mut_fallback_first(item) ==
    LET s2 == FirstHref(item.anchors, TRUE, 1)
        s3 == FirstHref(item.anchors, FALSE, 1)
    IN  IF item.urn # <<>>
        THEN [link |-> UpdateLink(item.urn), activity_id |-> item.urn]
        ELSE IF s2 # 0
        THEN [link |-> BaseHref(item.anchors[s2]),
              activity_id |-> HrefActivityId(item.anchors[s2])]
        ELSE IF s3 # 0
        THEN [link |-> BaseHref(item.anchors[s3]),
              activity_id |-> HrefActivityId(item.anchors[s3])]
        ELSE [link |-> None, activity_id |-> <<>>]

\* Strategies 1 to 4 of scrape_posts: post_link (None when no strategy
\* gives one) and activity_id (the empty string stands for None too: both
\* are false where the code tests it)
ResolveLink(item) ==
    LET urn_id == item.urn
        s2 == FirstHref(item.anchors, TRUE, 1)
        s3 == FirstHref(item.anchors, FALSE, 1)
    IN  IF urn_id # <<>> /\ item.html # None
        THEN [link |-> item.html, activity_id |-> urn_id]
        ELSE IF s2 # 0
        THEN [link |-> BaseHref(item.anchors[s2]),
              activity_id |-> HrefActivityId(item.anchors[s2])]
        ELSE IF s3 # 0
        THEN [link |-> BaseHref(item.anchors[s3]),
              activity_id |-> HrefActivityId(item.anchors[s3])]
        ELSE IF urn_id # <<>>
        THEN [link |-> UpdateLink(urn_id), activity_id |-> urn_id]
        ELSE [link |-> None, activity_id |-> <<>>]

EmptyText == [s |-> "", len |-> 0]

NoDescriptionText == [s |-> "[Post without text description]", len |-> 31]

NoTextText == [s |-> "[Post without text]", len |-> 19]

MinInnerTextLen == 10

MinTitleTextLen == 5

TitleLimit == 100

EllipsisLen == 3

RECURSIVE text_mut_first_found(_, _)
text_mut_first_found(sel, i) ==
    IF i > Len(sel) THEN EmptyText
    ELSE IF sel[i] # None THEN sel[i]
    ELSE text_mut_first_found(sel, i + 1)

RECURSIVE SelectorText(_, _)
\* the text of the first selector that yields non-empty text, "" when
\* none does
SelectorText(sel, i) ==
    IF i > Len(sel) THEN EmptyText
    ELSE IF sel[i] # None /\ sel[i].len > 0 THEN sel[i]
    ELSE SelectorText(sel, i + 1)

\* post_text after the selectors and the whole-item fallback
ExtractText(item) ==
    LET t == SelectorText(item.sel, 1)
    IN  IF t.len > 0 THEN t
        ELSE IF item.inner = None THEN NoDescriptionText
        ELSE IF item.inner.len < MinInnerTextLen THEN NoDescriptionText
        ELSE item.inner

final_mut_notext(post_text) ==
    IF post_text.len < MinTitleTextLen \/ post_text = NoDescriptionText
    THEN NoTextText ELSE post_text

\* post_text as stored: "[Post without text]" when shorter than 5
FinalText(post_text) ==
    IF post_text.len < MinTitleTextLen THEN NoTextText ELSE post_text

\* post_text[:100] + "..." if len(post_text) > 100 else post_text
TitleOf(post_text) ==
    IF post_text.len > TitleLimit
    THEN [s |-> post_text.s, len |-> TitleLimit + EllipsisLen, cut |-> TRUE]
    ELSE post_text

\* whether a src passes the media-host test and is no logo or profile picture
KeepImage(src) == src # None /\ src.media /\ ~src.icon

RECURSIVE AddImages(_, _, _)
AddImages(srcs, i, acc) ==
    IF i > Len(srcs) THEN acc
    ELSE IF KeepImage(srcs[i]) /\ \A j \in 1..Len(acc) : acc[j] # srcs[i]
    THEN AddImages(srcs, i + 1, Append(acc, srcs[i]))
    ELSE AddImages(srcs, i + 1, acc)

RECURSIVE image_mut_first_candidates(_, _)
image_mut_first_candidates(imgs, i) ==
    IF i > Len(imgs) THEN <<>>
    ELSE IF imgs[i] # <<>> THEN AddImages(imgs[i], 1, <<>>)
    ELSE image_mut_first_candidates(imgs, i + 1)

RECURSIVE ExtractImages(_, _)
\* post_images: the kept images of the first selector that keeps any
ExtractImages(imgs, i) ==
    IF i > Len(imgs) THEN <<>>
    ELSE LET got == AddImages(imgs[i], 1, <<>>)
         IN  IF got # <<>> THEN got ELSE ExtractImages(imgs, i + 1)

RECURSIVE FirstTimeAttr(_, _)
FirstTimeAttr(times, i) ==
    IF i > Len(times) THEN None
    ELSE IF times[i] # None THEN times[i]
    ELSE FirstTimeAttr(times, i + 1)

\* datetime.now().isoformat(): a naive local time
NowStamp(now) == [sec |-> SmallDigits(now), us |-> 0, aware |-> FALSE]

\* post_date: the time attribute, else the decoded activity id, else now
ResolveDate(item, activity_id, now) ==
    LET attr == FirstTimeAttr(item.times, 1)
        dec  == IF activity_id # <<>>
                THEN decode_linkedin_activity_id(activity_id) ELSE None
    IN  IF attr # None THEN attr
        ELSE IF dec # None THEN dec
        ELSE NowStamp(now)

\* post_data of an item whose link is post_link
PostData(item, post_link, activity_id, now) ==
    LET post_text == FinalText(ExtractText(item))
    IN  [title |-> TitleOf(post_text),
         link |-> post_link,
         description |-> post_text,
         published |-> ResolveDate(item, activity_id, now),
         images |-> ExtractImages(item.imgs, 1),
         scraped_at |-> NowStamp(now)]

(***************************************************************************)
(* The persisted state: feed/<slug>_posts.json.  A file is None (absent),  *)
(* [kind |-> "list", posts] (the old format, a bare list) or               *)
(* [kind |-> "dict", page_name, slug, updated_at, posts] (a dict, in which *)
(* the key posts may be missing).                                          *)
(***************************************************************************)
Slug == "master-concept"

\* slug.replace('-', ' ').title()
SlugTitle == "Master Concept"

load_mut_ignore_list(file) ==
    IF file = None THEN <<>>
    ELSE IF file.kind = "dict" /\ "posts" \in DOMAIN file THEN file.posts
    ELSE <<>>

\* LinkedInScraper.load_existing_posts
load_existing_posts(file) ==
    IF file = None THEN <<>>
    ELSE IF file.kind = "list" THEN file.posts
    ELSE IF file.kind = "dict"
    THEN IF "posts" \in DOMAIN file THEN file.posts ELSE <<>>
    ELSE <<>>

\* RSSFeedGenerator.load_posts: the posts and self.page_name ("" for None)
load_posts(file) ==
    IF file = None THEN [posts |-> <<>>, page_name |-> ""]
    ELSE IF file.kind = "list"
    THEN [posts |-> file.posts, page_name |-> SlugTitle]
    ELSE IF file.kind = "dict"
    THEN [posts |-> IF "posts" \in DOMAIN file THEN file.posts ELSE <<>>,
          page_name |-> IF "page_name" \in DOMAIN file THEN file.page_name
                        ELSE SlugTitle]
    ELSE [posts |-> <<>>, page_name |-> SlugTitle]

LinksOf(posts) == {posts[i].link : i \in 1..Len(posts)}

RECURSIVE AppendExisting(_, _, _, _)
\* the loop of save_posts over existing_posts
AppendExisting(merged, posts, existing_posts, i) ==
    IF i > Len(existing_posts) THEN merged
    ELSE IF existing_posts[i].link \notin LinksOf(posts)
    THEN AppendExisting(Append(merged, existing_posts[i]), posts,
                        existing_posts, i + 1)
    ELSE AppendExisting(merged, posts, existing_posts, i + 1)

merge_mut_new_only(posts, existing_posts) == posts

merge_mut_no_filter(posts, existing_posts) == posts \o existing_posts

merge_mut_old_first(posts, existing_posts) ==
    SelectSeq(existing_posts, LAMBDA e : e.link \notin LinksOf(posts))
        \o posts

\* merged_posts of save_posts: the new posts, then the existing ones whose
\* link is none of theirs
MergePosts(posts, existing_posts) ==
    AppendExisting(posts, posts, existing_posts, 1)

\* the file that save_posts writes
SavedFile(posts, existing_posts, page_name, now) ==
    [kind |-> "dict",
     page_name |-> IF page_name # "" THEN page_name ELSE SlugTitle,
     slug |-> Slug,
     updated_at |-> NowStamp(now),
     posts |-> MergePosts(posts, existing_posts)]

(***************************************************************************)
(* generate_feed of generate_rss.py.  posts.sort(key=parse(published)) is  *)
(* CPython's list.sort, which for fewer than 64 items is count_run and     *)
(* binarysort; a key that does not parse, or a comparison of a naive with  *)
(* an aware datetime, raises, and generate_feed goes on with the list as   *)
(* the failed sort left it.                                                *)
(***************************************************************************)
Unparsable == [bad |-> TRUE]

\* a < b on datetimes: err when one is naive and the other aware
DateLt(a, b) ==
    [err |-> a.aware # b.aware,
     lt  |-> \/ Less(a.sec, b.sec)
             \/ a.sec = b.sec /\ a.us < b.us]

RECURSIVE RunLength(_, _, _, _)
\* count_run: the length of the run that starts the list; desc says
\* whether it is the strictly descending kind
RunLength(a, desc, i, n) ==
    IF i > Len(a) THEN [n |-> n, err |-> FALSE]
    ELSE LET c == DateLt(a[i].published, a[i - 1].published)
         IN  IF c.err THEN [n |-> n, err |-> TRUE]
             ELSE IF c.lt = desc THEN RunLength(a, desc, i + 1, n + 1)
             ELSE [n |-> n, err |-> FALSE]

CountRun(a) ==
    IF Len(a) < 2 THEN [n |-> Len(a), desc |-> FALSE, err |-> FALSE]
    ELSE LET c == DateLt(a[2].published, a[1].published)
         IN  IF c.err THEN [n |-> 1, desc |-> FALSE, err |-> TRUE]
             ELSE LET r == RunLength(a, c.lt, 3, 2)
                  IN  [n |-> r.n, desc |-> c.lt, err |-> r.err]

RECURSIVE ReverseSeq(_)
ReverseSeq(a) ==
    IF a = <<>> THEN <<>> ELSE Append(ReverseSeq(Tail(a)), Head(a))

RECURSIVE BinarySearch(_, _, _, _)
\* the place of pivot among a[l+1..r] (0-based l, r as in binarysort)
BinarySearch(a, pivot, l, r) ==
    IF l >= r THEN [at |-> l, err |-> FALSE]
    ELSE LET p == l + ((r - l) \div 2)
             c == DateLt(pivot.published, a[p + 1].published)
         IN  IF c.err THEN [at |-> l, err |-> TRUE]
             ELSE IF c.lt THEN BinarySearch(a, pivot, l, p)
             ELSE BinarySearch(a, pivot, p + 1, r)

RECURSIVE BinarySort(_, _)
\* binarysort: a[1..start] is sorted; insert the rest one by one
BinarySort(a, start) ==
    IF start >= Len(a) THEN a
    ELSE LET pivot == a[start + 1]
             at    == BinarySearch(a, pivot, 0, start)
         IN  IF at.err THEN a
             ELSE BinarySort(SubSeq(a, 1, at.at) \o <<pivot>>
                                 \o SubSeq(a, at.at + 1, start)
                                 \o SubSeq(a, start + 2, Len(a)),
                             start + 1)

\* posts after posts.sort(key=lambda x: parse(x['published'])) in its
\* try block
SortByDate(posts) ==
    IF \E i \in 1..Len(posts) : posts[i].published = Unparsable THEN posts
    ELSE LET run == CountRun(posts)
         IN  IF run.err THEN posts
             ELSE BinarySort(
                    IF run.desc
                    THEN ReverseSeq(SubSeq(posts, 1, run.n))
                             \o SubSeq(posts, run.n + 1, Len(posts))
                    ELSE posts,
                    run.n)

feed_mut_append(posts) ==
    [items |-> [i \in 1..Len(posts) |-> SortByDate(posts)[i].link]]

\* the feed written by generate_feed: fg.add_entry() puts each entry
\* before the earlier ones, so the entries are the sorted posts reversed
FeedOf(posts) ==
    LET sorted == ReverseSeq(SortByDate(posts))
    IN  [items |-> [i \in 1..Len(sorted) |-> sorted[i].link]]

\* get_latest_post_link_from_xml: the link of the first item, or None
get_latest_post_link_from_xml(xml) ==
    IF xml = None THEN None
    ELSE IF xml.items = <<>> THEN None
    ELSE xml.items[1]

(***************************************************************************)
(* The state.                                                              *)
(***************************************************************************)
VARIABLES
    posts_file,         \* feed/<slug>_posts.json
    xml_file,           \* feed/<slug>.xml: None or [items: the item links]
    clock,              \* the wall clock, in seconds
    pc,                 \* where the scraper process is: "idle" (not
                        \* started), "loop", "scraped", "done" (exited)
    max_posts_initial,  \* self.max_posts_initial
    page_name,          \* self.page_name ("" for None)
    target_post_link,   \* scrape_posts: None or the link read from the XML
    is_initial_run,
    post_elements,      \* the raw items the page lists
    idx,                \* the position of the for loop in post_elements
    posts,
    processed_count,
    found_target,
    accepted_at,        \* for each post of posts, the idx it was appended at
    existing_posts,     \* save_posts: what load_existing_posts returned
    activity_id,        \* the argument of decode_linkedin_activity_id
    decoded,            \* its result
    tok,                \* [t, r]: what activity_id was encoded from
    scrolls,            \* scrape_posts: the scroll commands issued
    waited,             \* scrape_posts: the seconds waited for the login
    failed,             \* scrape_posts: its "except Exception" handler ran
    returncode,         \* of the scraper process: -1 while it runs
    before,             \* the two files as they were when the run started
    success_count,      \* scrape_all_pages
    failed_pages,       \* scrape_all_pages
    racers,             \* the scraper processes that run at the same time,
                        \* or NoPeer
    other_files,        \* the two files of the slug linkedin-feed
    batch,              \* scrape_all_pages over a page list, or NoBatch
    source              \* the posts of the company page, newest first

vars == <<posts_file, xml_file, clock, pc, max_posts_initial, page_name,
          target_post_link, is_initial_run, post_elements, idx, posts,
          processed_count, found_target, accepted_at, existing_posts,
          activity_id, decoded, tok, scrolls, waited, failed, returncode,
          before, success_count, failed_pages, racers, other_files, batch,
          source>>

fileVars == <<posts_file, xml_file>>

runVars == <<max_posts_initial, page_name, target_post_link, is_initial_run,
             post_elements, idx, posts, processed_count, found_target,
             accepted_at, existing_posts>>

decodeVars == <<activity_id, decoded, tok>>

procVars == <<scrolls, waited, failed, returncode, before>>

envVars == <<racers, other_files, batch, source>>

batchVars == <<success_count, failed_pages, envVars>>

NoPeer == [pc |-> "none"]

NoFiles == [posts_file |-> None, xml_file |-> None]

NoBatch == [pc |-> "none"]

\* no second process, no second slug, no page list, no page content kept
EnvIdle ==
    /\ racers = NoPeer
    /\ other_files = NoFiles
    /\ batch = NoBatch
    /\ source = <<>>

(***************************************************************************)
(* Bounds and inputs.                                                      *)
(***************************************************************************)
\* the longest list of raw items a page gives in Spec
MaxStream == 3

\* the milliseconds 0..MaxMillis of each second that SpecDecode decodes
MaxMillis == 4

MAX_POSTS_TO_SCRAPE == 100

MAX_POSTS_INITIAL == 10

\* max_scrolls of an initial run and of an incremental run
MaxScrollsInitial == 5

MaxScrollsIncremental == 20

scroll_mut_swapped(initial) ==
    IF initial THEN MaxScrollsIncremental ELSE MaxScrollsInitial

MaxScrolls(initial) ==
    IF initial THEN MaxScrollsInitial ELSE MaxScrollsIncremental

Token1 == Token(1)

Token2 == Token(2)

PostsLink(form, id, slashes, query) ==
    [form |-> form, id |-> id, tail |-> <<>>, slashes |-> slashes,
     query |-> query]

Href(form, id, slashes, query) ==
    [form |-> form, id |-> id, tail |-> <<>>, slashes |-> slashes,
     query |-> query, abs |-> FALSE]

NoSelector == [i \in 1..7 |-> None]

NoImages == [i \in 1..4 |-> <<>>]

\* a post with text and a picture, whose link the markup pattern gives
ItemA ==
    [urn |-> Token1,
     html |-> PostsLink("strict", Token1, 0, FALSE),
     anchors |-> <<>>,
     sel |-> [NoSelector EXCEPT ![2] = [s |-> "a", len |-> 150]],
     inner |-> [s |-> "A", len |-> 200],
     imgs |-> [NoImages EXCEPT ![1] =
                 <<[media |-> TRUE, icon |-> TRUE, id |-> 1],
                   [media |-> TRUE, icon |-> FALSE, id |-> 2]>>],
     times |-> <<>>,
     raises |-> FALSE]

\* a post without text, whose link an anchor gives
ItemB ==
    [urn |-> Token2,
     html |-> None,
     anchors |-> <<Href("other", <<>>, 0, FALSE),
                   Href("loose", Token2, 1, TRUE)>>,
     sel |-> [NoSelector EXCEPT ![1] = EmptyText],
     inner |-> [s |-> "B", len |-> 4],
     imgs |-> NoImages,
     times |-> <<>>,
     raises |-> FALSE]

\* an element with no data-urn and no post anchor, as the older selectors
\* find them on a page without data-urn attributes
ItemC ==
    [urn |-> <<>>,
     html |-> None,
     anchors |-> <<Href("other", <<>>, 0, FALSE)>>,
     sel |-> [NoSelector EXCEPT ![1] = [s |-> "c", len |-> 3]],
     inner |-> [s |-> "C", len |-> 30],
     imgs |-> NoImages,
     times |-> <<>>,
     raises |-> FALSE]

\* a post with a short text and a time element, whose link only the
\* data-urn gives
ItemD ==
    [urn |-> Token(3),
     html |-> None,
     anchors |-> <<>>,
     sel |-> [NoSelector EXCEPT ![1] = EmptyText,
                                ![3] = [s |-> "d", len |-> 3]],
     inner |-> [s |-> "D", len |-> 40],
     imgs |-> NoImages,
     times |-> <<None, [sec |-> <<5>>, us |-> 0, aware |-> FALSE]>>,
     raises |-> FALSE]

\* an element whose accessors raise (detached from the page)
ItemE == [ItemA EXCEPT !.raises = TRUE]

\* a post with no data-urn, whose link its second anchor gives
ItemF ==
    [urn |-> <<>>,
     html |-> None,
     anchors |-> <<Href("loose", Token1, 0, FALSE),
                   Href("strict", Token2, 0, TRUE)>>,
     sel |-> [NoSelector EXCEPT ![4] = [s |-> "f", len |-> 120]],
     inner |-> [s |-> "F", len |-> 130],
     imgs |-> NoImages,
     times |-> <<>>,
     raises |-> FALSE]

\* the characters that follow the activity id in a post path: "-" and a
\* hash
HashTail == <<10, 10>>

\* a post of another company's page: its data-urn names the activity, the
\* pattern of strategy 1 and the test of strategy 2 do not match, and its
\* anchor has the path /posts/<company>_<text>-activity-<id>-<hash>
ItemG ==
    [urn |-> Token(4),
     html |-> None,
     anchors |-> <<[Href("loose", Token(4), 0, TRUE)
                       EXCEPT !.tail = HashTail]>>,
     sel |-> [NoSelector EXCEPT ![2] = [s |-> "g", len |-> 60]],
     inner |-> [s |-> "G", len |-> 70],
     imgs |-> [NoImages EXCEPT
                 ![1] = <<[media |-> TRUE, icon |-> TRUE, id |-> 1]>>,
                 ![3] = <<[media |-> TRUE, icon |-> FALSE, id |-> 3],
                          [media |-> FALSE, icon |-> FALSE, id |-> 4],
                          [media |-> TRUE, icon |-> FALSE, id |-> 2],
                          [media |-> TRUE, icon |-> FALSE, id |-> 3]>>,
                 ![4] = <<[media |-> TRUE, icon |-> FALSE, id |-> 5]>>],
     times |-> <<>>,
     raises |-> FALSE]

\* an activity id whose timestamp is the first millisecond of year 10000
FarToken ==
    EncodeActivityId(MulAdd(MulAdd(MaxDatetimeSeconds, 1, 1),
                            MillisPerSecond, 0), 0)

\* a post with no data-urn, whose anchor carries an activity id past the
\* range of datetime
ItemH ==
    [urn |-> <<>>,
     html |-> None,
     anchors |-> <<Href("strict", FarToken, 0, FALSE)>>,
     sel |-> [NoSelector EXCEPT ![1] = [s |-> "h", len |-> 20]],
     inner |-> [s |-> "H", len |-> 25],
     imgs |-> NoImages,
     times |-> <<>>,
     raises |-> FALSE]

\* the elements that "[data-urn*='urn:li:activity']" finds
UrnItems == {ItemA, ItemB, ItemD, ItemE, ItemG}

\* the elements that the fallback selectors find when it finds none
PlainItems == {ItemC, ItemF, ItemH}

RECURSIVE SeqsUpTo(_, _)
\* the sequences over S of length at most n
SeqsUpTo(S, n) ==
    IF n = 0 THEN {<<>>}
    ELSE LET shorter == SeqsUpTo(S, n - 1)
         IN  shorter \cup {Append(q, x) : q \in shorter, x \in S}

\* post_elements: all from the first selector or all from a fallback one
Streams == SeqsUpTo(UrnItems, MaxStream) \cup SeqsUpTo(PlainItems, MaxStream)

InitialSizes == {2, MAX_POSTS_INITIAL}

\* what the page-name selectors find: a name, or nothing
PageTitles == {"Acme Corp"}

\* a post as an earlier version of the scraper stored it, in a bare list
LegacyPost ==
    [title |-> [s |-> "old", len |-> 20],
     link |-> PostsLink("strict", Token1, 1, TRUE),
     description |-> [s |-> "old", len |-> 20],
     published |-> [sec |-> <<>>, us |-> 1000, aware |-> TRUE],
     images |-> <<>>,
     scraped_at |-> NowStamp(0)]

LegacyFile == [kind |-> "list", posts |-> <<LegacyPost>>]

\* the file of an earlier run, at time 0, that accepted ItemB and ItemA
EarlierFile ==
    SavedFile(<<PostData(ItemB, ResolveLink(ItemB).link,
                         ResolveLink(ItemB).activity_id, 0),
                PostData(ItemA, ResolveLink(ItemA).link,
                         ResolveLink(ItemA).activity_id, 0)>>,
              <<>>, "Acme Corp", 0)

\* what earlier runs of the scraper and of generate_rss.py left on disk:
\* nothing; a file without a feed; a file and the feed made from it
InitialDisks ==
    {<<None, None>>}
        \cup {<<f, None>> : f \in {LegacyFile, EarlierFile}}
        \cup {<<f, FeedOf(f.posts)>> : f \in {LegacyFile, EarlierFile}}

(***************************************************************************)
(* Init and the actions.                                                   *)
(***************************************************************************)
ScraperIdle ==
    /\ max_posts_initial = MAX_POSTS_INITIAL
    /\ page_name = ""
    /\ target_post_link = None
    /\ is_initial_run = TRUE
    /\ post_elements = <<>>
    /\ idx = 1
    /\ posts = <<>>
    /\ processed_count = 0
    /\ found_target = FALSE
    /\ accepted_at = <<>>
    /\ existing_posts = <<>>
    /\ scrolls = 0
    /\ waited = 0
    /\ failed = FALSE
    /\ returncode = -1
    /\ before = [posts_file |-> posts_file, xml_file |-> xml_file]
    /\ success_count = 0
    /\ failed_pages = {}

RunIdle == ScraperIdle /\ EnvIdle

DecodeIdle ==
    /\ activity_id = <<>>
    /\ decoded = None
    /\ tok = None

Init ==
    /\ \E disk \in InitialDisks :
          /\ posts_file = disk[1]
          /\ xml_file = disk[2]
    /\ clock = 0
    /\ pc = "idle"
    /\ RunIdle
    /\ DecodeIdle

mode_mut_never_initial(target) == FALSE

\* is_initial_run = (target_post_link is None)
IsInitialRun(target) == target = None

\* scrape_posts up to the item loop: the mode, the page name, the elements
BeginRun(stream, m, title) ==
    /\ clock' = clock + 1
    /\ max_posts_initial' = m
    /\ target_post_link' = get_latest_post_link_from_xml(xml_file)
    /\ is_initial_run' = IsInitialRun(get_latest_post_link_from_xml(xml_file))
    /\ page_name' = title
    /\ post_elements' = stream
    /\ idx' = 1
    /\ posts' = <<>>
    /\ processed_count' = 0
    /\ found_target' = FALSE
    /\ accepted_at' = <<>>
    /\ existing_posts' = <<>>
    /\ pc' = IF stream = <<>> THEN "scraped" ELSE "loop"
    /\ scrolls' = MaxScrolls(get_latest_post_link_from_xml(xml_file) = None)
    /\ waited' = 0
    /\ failed' = FALSE
    /\ before' = [posts_file |-> posts_file, xml_file |-> xml_file]
    /\ UNCHANGED <<fileVars, decodeVars, returncode, batchVars>>

StartRun ==
    /\ pc = "idle"
    /\ \E stream \in Streams, m \in InitialSizes, title \in PageTitles :
          BeginRun(stream, m, title)

boundary_mut_always(current, target) == TRUE

boundary_mut_raw(current, target) == current = target

\* current_link_normalized == target_link_normalized
IsTargetPost(current, target) ==
    NormalizeLink(current) = NormalizeLink(target)

save_mut_always(post_link) == TRUE

\* "if post_link:" before the post is appended
HasPostLink(post_link) == post_link # None

\* the element at idx, once the three exit conditions let it through
process_mut_abort_on_error ==
    LET item == post_elements[idx]
        r    == ResolveLink(item)
        hit  == /\ ~is_initial_run
                /\ target_post_link # None
                /\ r.link # None
                /\ IsTargetPost(r.link, target_post_link)
    IN  IF item.raises
        THEN /\ pc' = "scraped"
             /\ UNCHANGED <<idx, posts, processed_count, found_target,
                            accepted_at>>
        ELSE IF hit
        THEN /\ found_target' = TRUE
             /\ pc' = "scraped"
             /\ UNCHANGED <<idx, posts, processed_count, accepted_at>>
        ELSE IF HasPostLink(r.link)
        THEN /\ posts' = Append(posts,
                                PostData(item, r.link, r.activity_id, clock))
             /\ processed_count' = processed_count + 1
             /\ accepted_at' = Append(accepted_at, idx)
             /\ idx' = idx + 1
             /\ UNCHANGED <<pc, found_target>>
        ELSE /\ idx' = idx + 1
             /\ UNCHANGED <<pc, posts, processed_count, found_target,
                            accepted_at>>

ProcessElement ==
    LET item == post_elements[idx]
        r    == ResolveLink(item)
        hit  == /\ ~is_initial_run
                /\ target_post_link # None
                /\ r.link # None
                /\ IsTargetPost(r.link, target_post_link)
    IN  IF item.raises
        THEN /\ idx' = idx + 1
             /\ UNCHANGED <<pc, posts, processed_count, found_target,
                            accepted_at>>
        ELSE IF hit
        THEN /\ found_target' = TRUE
             /\ pc' = "scraped"
             /\ UNCHANGED <<idx, posts, processed_count, accepted_at>>
        ELSE IF HasPostLink(r.link)
        THEN /\ posts' = Append(posts,
                                PostData(item, r.link, r.activity_id, clock))
             /\ processed_count' = processed_count + 1
             /\ accepted_at' = Append(accepted_at, idx)
             /\ idx' = idx + 1
             /\ UNCHANGED <<pc, found_target>>
        ELSE /\ idx' = idx + 1
             /\ UNCHANGED <<pc, posts, processed_count, found_target,
                            accepted_at>>

exit_mut_off_by_one == processed_count > MAX_POSTS_TO_SCRAPE

\* Exit condition: reached max posts limit
ReachedMaxPosts == processed_count >= MAX_POSTS_TO_SCRAPE

initial_mut_off_by_one ==
    is_initial_run /\ processed_count > max_posts_initial

\* Exit condition (initial run): reached desired number of posts
ReachedInitialPosts ==
    is_initial_run /\ processed_count >= max_posts_initial

\* one pass of "for idx, post_element in enumerate(post_elements, 1)"
LoopStep ==
    /\ pc = "loop"
    /\ IF idx > Len(post_elements)
       THEN /\ pc' = "scraped"
            /\ UNCHANGED <<idx, posts, processed_count, found_target,
                           accepted_at>>
       ELSE IF ReachedMaxPosts \/ ReachedInitialPosts \/ found_target
       THEN /\ pc' = "scraped"
            /\ UNCHANGED <<idx, posts, processed_count, found_target,
                           accepted_at>>
       ELSE ProcessElement
    /\ UNCHANGED <<fileVars, clock, max_posts_initial, page_name,
                   target_post_link, is_initial_run, post_elements,
                   existing_posts, decodeVars, procVars, batchVars>>

\* save_posts(posts)
save_posts ==
    /\ existing_posts' = load_existing_posts(posts_file)
    /\ posts_file' = SavedFile(posts, load_existing_posts(posts_file),
                               page_name, clock)

main_mut_save_always == TRUE

\* "if posts:" of main
HasNewPosts == posts # <<>>

\* main after scrape_posts: "if posts: scraper.save_posts(posts)"
MainSave ==
    /\ pc = "scraped"
    /\ pc' = "done"
    /\ IF HasNewPosts THEN save_posts
       ELSE UNCHANGED <<posts_file, existing_posts>>
    /\ returncode' = 0
    /\ UNCHANGED <<xml_file, clock, max_posts_initial, page_name,
                   target_post_link, is_initial_run, post_elements, idx,
                   posts, processed_count, found_target, accepted_at,
                   decodeVars, scrolls, waited, failed, before, batchVars>>

\* generate_rss.py: generate_feed, which writes nothing without posts
GenerateFeed ==
    /\ pc \in {"idle", "done"}
    /\ IF load_posts(posts_file).posts # <<>>
       THEN xml_file' = FeedOf(load_posts(posts_file).posts)
       ELSE UNCHANGED xml_file
    /\ UNCHANGED <<posts_file, clock, pc, runVars, decodeVars, procVars,
                   batchVars>>

Next == StartRun \/ LoopStep \/ MainSave \/ GenerateFeed

Spec == Init /\ [][Next]_vars

(***************************************************************************)
(* SpecLong: one run over a long page, for the two caps of the item loop.  *)
(* The page lists n posts with the activity ids Token(1..n), and an        *)
(* element whose accessors raise in place of the post at hole (0: none).   *)
(***************************************************************************)
LongItem(k) ==
    [urn |-> Token(k),
     html |-> None,
     anchors |-> <<>>,
     sel |-> [NoSelector EXCEPT ![1] = [s |-> "p", len |-> 60]],
     inner |-> [s |-> "P", len |-> 90],
     imgs |-> NoImages,
     times |-> <<>>,
     raises |-> FALSE]

LongStream(n, hole) ==
    [k \in 1..n |-> IF k = hole THEN ItemE ELSE LongItem(k)]

LongHoles == {0, 2}

\* the lengths of the page: up to 15, around the initial fetch size, and
\* around the ceiling of 100
LongLengths ==
    (0..(MAX_POSTS_INITIAL + 5))
        \cup ((MAX_POSTS_TO_SCRAPE - 1)..MaxLongStream)

LongInitialSizes ==
    {MAX_POSTS_INITIAL, MAX_POSTS_TO_SCRAPE, MAX_POSTS_TO_SCRAPE + 1}

LongDisks == {<<None, None>>, <<LegacyFile, FeedOf(LegacyFile.posts)>>}

InitLong ==
    /\ \E disk \in LongDisks :
          /\ posts_file = disk[1]
          /\ xml_file = disk[2]
    /\ clock = 0
    /\ pc = "idle"
    /\ RunIdle
    /\ DecodeIdle

StartLongRun ==
    /\ pc = "idle"
    /\ \E n \in LongLengths, hole \in LongHoles, m \in LongInitialSizes,
          title \in PageTitles :
          BeginRun(LongStream(n, hole), m, title)

NextLong == StartLongRun \/ LoopStep \/ MainSave

SpecLong == InitLong /\ [][NextLong]_vars

(***************************************************************************)
(* SpecMerge: save_posts called twice with the same new posts.             *)
(***************************************************************************)
SamplePosts ==
    {PostData(item, ResolveLink(item).link, ResolveLink(item).activity_id, 1)
        : item \in {ItemA, ItemB, ItemD}}
        \cup {LegacyPost}

InitMerge ==
    /\ \E disk \in InitialDisks :
          /\ posts_file = disk[1]
          /\ xml_file = disk[2]
    /\ clock = 1
    /\ pc = "scraped"
    /\ max_posts_initial = MAX_POSTS_INITIAL
    /\ page_name \in PageTitles
    /\ target_post_link = get_latest_post_link_from_xml(xml_file)
    /\ is_initial_run = (target_post_link = None)
    /\ post_elements = <<>>
    /\ idx = 1
    /\ posts \in SeqsUpTo(SamplePosts, MaxStream)
    /\ processed_count = Len(posts)
    /\ found_target = FALSE
    /\ accepted_at = <<>>
    /\ existing_posts = <<>>
    /\ scrolls = MaxScrolls(is_initial_run)
    /\ waited = 0
    /\ failed = FALSE
    /\ returncode = -1
    /\ before = [posts_file |-> posts_file, xml_file |-> xml_file]
    /\ success_count = 0
    /\ failed_pages = {}
    /\ EnvIdle
    /\ DecodeIdle

\* save_posts(posts)
SaveFirst ==
    /\ pc = "scraped"
    /\ pc' = "done"
    /\ save_posts
    /\ UNCHANGED <<xml_file, clock, max_posts_initial, page_name,
                   target_post_link, is_initial_run, post_elements, idx,
                   posts, processed_count, found_target, accepted_at,
                   decodeVars, procVars, batchVars>>

\* save_posts(posts) once more, with the posts of the first call
SaveAgain ==
    /\ pc = "done"
    /\ pc' = "again"
    /\ save_posts
    /\ UNCHANGED <<xml_file, clock, max_posts_initial, page_name,
                   target_post_link, is_initial_run, post_elements, idx,
                   posts, processed_count, found_target, accepted_at,
                   decodeVars, procVars, batchVars>>

NextMerge == SaveFirst \/ SaveAgain

SpecMerge == InitMerge /\ [][NextMerge]_vars

(***************************************************************************)
(* SpecDecode: decode_linkedin_activity_id on the activity ids             *)
(* (t << 22) | r, for t in the first milliseconds of chosen seconds.       *)
(***************************************************************************)
\* 1970; 2023; the last second below 2^33 and 2^33; the year 6596 of the
\* documented example; the last second of 9999 and the first of 10000
DecodeSeconds ==
    {<<>>,
     <<1, 7, 0, 0, 0, 0, 0, 0, 0, 0>>,
     <<8, 5, 8, 9, 9, 3, 4, 5, 9, 1>>,
     <<8, 5, 8, 9, 9, 3, 4, 5, 9, 2>>,
     <<1, 4, 6, 0, 0, 0, 0, 0, 0, 0, 0, 0>>,
     <<2, 5, 3, 4, 0, 2, 3, 0, 0, 7, 9, 9>>,
     <<2, 5, 3, 4, 0, 2, 3, 0, 0, 8, 0, 0>>}

DecodeMillis == (0..MaxMillis) \cup {MillisPerSecond - 1}

DecodeLows == {0, 12345, 2^TimestampShift - 1}

InitDecode ==
    /\ posts_file = None
    /\ xml_file = None
    /\ clock = 0
    /\ pc = "decode"
    /\ RunIdle
    /\ \E sec \in DecodeSeconds, ms \in DecodeMillis, r \in DecodeLows :
          /\ tok = [t |-> MulAdd(sec, MillisPerSecond, ms), r |-> r]
          /\ activity_id =
                Str(EncodeActivityId(MulAdd(sec, MillisPerSecond, ms), r))
    /\ decoded = None

DecodeStep ==
    /\ pc = "decode"
    /\ pc' = "decoded"
    /\ decoded' = decode_linkedin_activity_id(activity_id)
    /\ UNCHANGED <<fileVars, clock, runVars, activity_id, tok, procVars,
                   batchVars>>

NextDecode == DecodeStep

SpecDecode == InitDecode /\ [][NextDecode]_vars

(***************************************************************************)
(* SpecRun: scrape_all_pages on one page.  The scraper process runs step   *)
(* by step (browser, navigation, login wait, scrolls, element listing,     *)
(* item loop, save), and each browser call may raise; scrape_all_pages     *)
(* then reads the return code and runs generate_rss.py.                    *)
(***************************************************************************)
\* max_wait and the sleep of each turn of the login wait, in seconds
MaxLoginWait == 180

LoginPollSeconds == 3

\* the pages of SpecRun: none, one post, one element without a link, an
\* element that raises before a post, and three posts
RunStreams ==
    {<<>>, <<ItemA>>, <<ItemC>>, <<ItemE, ItemB>>, <<ItemB, ItemA, ItemD>>}

\* "except Exception as e" of scrape_posts: return []
RunFails ==
    /\ failed' = TRUE
    /\ posts' = <<>>
    /\ pc' = "scraped"

\* main up to the try of scrape_posts: the mode, the browser, the context
\* and the page; an exception here is caught nowhere and ends the process
LaunchBrowser ==
    /\ pc = "idle"
    /\ clock' = clock + 1
    /\ max_posts_initial' = MAX_POSTS_INITIAL
    /\ target_post_link' = get_latest_post_link_from_xml(xml_file)
    /\ is_initial_run' = IsInitialRun(get_latest_post_link_from_xml(xml_file))
    /\ before' = [posts_file |-> posts_file, xml_file |-> xml_file]
    /\ \E launched \in BOOLEAN :
          IF launched
          THEN pc' = "goto" /\ returncode' = returncode
          ELSE pc' = "exited" /\ returncode' = 1
    /\ UNCHANGED <<fileVars, page_name, post_elements, idx, posts,
                   processed_count, found_target, accepted_at,
                   existing_posts, decodeVars, scrolls, waited, failed,
                   batchVars>>

\* page.goto and the login check
Navigate ==
    /\ pc = "goto"
    /\ \E loaded \in BOOLEAN, needs_login \in BOOLEAN :
          IF ~loaded THEN RunFails
          ELSE /\ pc' = IF needs_login THEN "login" ELSE "page"
               /\ UNCHANGED <<failed, posts>>
    /\ UNCHANGED <<fileVars, clock, max_posts_initial, page_name,
                   target_post_link, is_initial_run, post_elements, idx,
                   processed_count, found_target, accepted_at,
                   existing_posts, decodeVars, scrolls, waited, returncode,
                   before, batchVars>>

login_mut_extra_poll ==
    /\ pc = "login"
    /\ waited <= MaxLoginWait
    /\ waited' = waited + LoginPollSeconds
    /\ \E login_successful \in BOOLEAN :
          pc' = IF login_successful THEN "relogin" ELSE "login"
    /\ UNCHANGED <<fileVars, clock, runVars, decodeVars, scrolls, failed,
                   returncode, before, batchVars>>

\* one turn of "while waited < max_wait": an error while checking is
\* caught in the loop
LoginPoll ==
    /\ pc = "login"
    /\ waited < MaxLoginWait
    /\ waited' = waited + LoginPollSeconds
    /\ \E login_successful \in BOOLEAN :
          pc' = IF login_successful THEN "relogin" ELSE "login"
    /\ UNCHANGED <<fileVars, clock, runVars, decodeVars, scrolls, failed,
                   returncode, before, batchVars>>

\* after the wait: the state is saved and the page opened again
AfterLogin ==
    /\ pc = "relogin" \/ (pc = "login" /\ waited >= MaxLoginWait)
    /\ \E loaded \in BOOLEAN :
          IF ~loaded THEN RunFails
          ELSE pc' = "page" /\ UNCHANGED <<failed, posts>>
    /\ UNCHANGED <<fileVars, clock, max_posts_initial, page_name,
                   target_post_link, is_initial_run, post_elements, idx,
                   processed_count, found_target, accepted_at,
                   existing_posts, decodeVars, scrolls, waited, returncode,
                   before, batchVars>>

\* the page name and the clicks on the tab and the sort button, whose
\* errors are caught where they happen
OpenPage ==
    /\ pc = "page"
    /\ pc' = "scroll"
    /\ page_name' \in PageTitles \cup {SlugTitle}
    /\ UNCHANGED <<fileVars, clock, max_posts_initial, target_post_link,
                   is_initial_run, post_elements, idx, posts,
                   processed_count, found_target, accepted_at,
                   existing_posts, decodeVars, procVars, batchVars>>

\* one turn of "for i in range(max_scrolls)"
Scroll ==
    /\ pc = "scroll"
    /\ scrolls < MaxScrolls(is_initial_run)
    /\ scrolls' = scrolls + 1
    /\ \E done \in BOOLEAN :
          IF ~done THEN RunFails
          ELSE UNCHANGED <<pc, failed, posts>>
    /\ UNCHANGED <<fileVars, clock, max_posts_initial, page_name,
                   target_post_link, is_initial_run, post_elements, idx,
                   processed_count, found_target, accepted_at,
                   existing_posts, decodeVars, waited, returncode, before,
                   batchVars>>

\* the post elements of the page, once the scrolls are done; without any,
\* scrape_posts returns []
ListElements ==
    /\ pc = "scroll"
    /\ scrolls >= MaxScrolls(is_initial_run)
    /\ \E listed \in BOOLEAN, stream \in RunStreams :
          IF ~listed
          THEN RunFails /\ UNCHANGED post_elements
          ELSE /\ post_elements' = stream
               /\ pc' = IF stream = <<>> THEN "scraped" ELSE "loop"
               /\ UNCHANGED <<failed, posts>>
    /\ UNCHANGED <<fileVars, clock, max_posts_initial, page_name,
                   target_post_link, is_initial_run, idx, processed_count,
                   found_target, accepted_at, existing_posts, decodeVars,
                   scrolls, waited, returncode, before, batchVars>>

\* scrape_all_pages once the scraper process has ended: a page whose
\* scraper returned non-zero has failed; otherwise generate_rss.py runs,
\* and it returns zero with or without a feed
RecordPage ==
    /\ pc \in {"done", "exited"}
    /\ pc' = "recorded"
    /\ IF returncode # 0
       THEN /\ failed_pages' = failed_pages \cup {Slug}
            /\ UNCHANGED <<success_count, xml_file>>
       ELSE /\ success_count' = success_count + 1
            /\ xml_file' = IF load_posts(posts_file).posts # <<>>
                           THEN FeedOf(load_posts(posts_file).posts)
                           ELSE xml_file
            /\ UNCHANGED failed_pages
    /\ UNCHANGED <<posts_file, clock, runVars, decodeVars, procVars,
                   envVars>>

NextRun ==
    \/ LaunchBrowser
    \/ Navigate
    \/ LoginPoll
    \/ AfterLogin
    \/ OpenPage
    \/ Scroll
    \/ ListElements
    \/ LoopStep
    \/ MainSave
    \/ RecordPage

SpecRun == Init /\ [][NextRun]_vars

\* the steps of the run outside the element loop
OutsideLoop ==
    \/ LaunchBrowser
    \/ Navigate
    \/ LoginPoll
    \/ AfterLogin
    \/ OpenPage
    \/ Scroll
    \/ ListElements
    \/ MainSave
    \/ RecordPage

\* what a pass of the element loop does to the loop position: it leaves
\* the loop, or it goes on to the next element
LoopMoves ==
    /\ pc = "loop"
    /\ \/ pc' = "scraped" /\ idx' = idx
       \/ pc' = pc /\ idx' = idx + 1

\* the scraper and the batch runner are one sequential process that keeps
\* running: the step it is at is taken (every renderer call returns or
\* raises, every sleep ends)
SpecRunLive ==
    /\ Init
    /\ [][NextRun]_vars
    /\ WF_vars(OutsideLoop)
    /\ WF_<<pc, idx>>(LoopMoves)

(***************************************************************************)
(* SpecCrash: save_posts step by step, with the process stopping at any    *)
(* step.  open(self.posts_file, 'w') truncates the file before json.dump   *)
(* writes the first byte, and json.dump writes the document piece by       *)
(* piece; the file is complete only once every piece is written.           *)
(***************************************************************************)
\* the document data, of which the metadata and the first written posts
\* have reached the file
PartialFile(data, written) ==
    [kind |-> "partial", data |-> data, written |-> written]

SaveRest ==
    UNCHANGED <<xml_file, clock, max_posts_initial, page_name,
                target_post_link, is_initial_run, post_elements, idx,
                posts, processed_count, found_target, accepted_at,
                decodeVars, scrolls, waited, failed, before, batchVars>>

\* main: "if posts: scraper.save_posts(posts)", and in save_posts
\* existing_posts = self.load_existing_posts()
SaveLoad ==
    /\ pc = "scraped"
    /\ HasNewPosts
    /\ pc' = "merged"
    /\ existing_posts' = load_existing_posts(posts_file)
    /\ UNCHANGED <<posts_file, returncode>>
    /\ SaveRest

\* open(self.posts_file, 'w'): the file is created or truncated to nothing
SaveOpen ==
    /\ pc = "merged"
    /\ pc' = "opened"
    /\ posts_file' = PartialFile(SavedFile(posts, existing_posts,
                                           page_name, clock), 0)
    /\ UNCHANGED <<existing_posts, returncode>>
    /\ SaveRest

\* json.dump: the next post of the document reaches the file
SaveWrite ==
    /\ pc = "opened"
    /\ posts_file.written < Len(posts_file.data.posts)
    /\ posts_file' = PartialFile(posts_file.data, posts_file.written + 1)
    /\ UNCHANGED <<pc, existing_posts, returncode>>
    /\ SaveRest

\* the end of the with block: the closing brackets are written and the
\* file is closed; main returns
SaveClose ==
    /\ pc = "opened"
    /\ posts_file.written = Len(posts_file.data.posts)
    /\ pc' = "done"
    /\ posts_file' = posts_file.data
    /\ returncode' = 0
    /\ UNCHANGED existing_posts
    /\ SaveRest

\* the process stops: it is killed, the machine goes down, or a write
\* raises (the disk is full)
Crash ==
    /\ pc \in {"scraped", "merged", "opened"}
    /\ pc' = "crashed"
    /\ returncode' = 1
    /\ UNCHANGED <<posts_file, existing_posts>>
    /\ SaveRest

NextCrash == SaveLoad \/ SaveOpen \/ SaveWrite \/ SaveClose \/ Crash

SpecCrash == InitMerge /\ [][NextCrash]_vars

(***************************************************************************)
(* SpecRace: two scraper processes, started on any two addresses, that     *)
(* have scraped and now run save_posts at the same time.  There is no      *)
(* lock: the steps of each (load, open, dump and close) interleave freely. *)
(* A file is also [kind |-> "corrupt"]: a document written over a longer   *)
(* one, whose tail is left behind it.                                      *)
(***************************************************************************)
CompanyUrl == [kind |-> "company", name |-> "master-concept"]

\* the configured addresses: a company page, a showcase page of the same
\* name, and two school pages
Urls ==
    {CompanyUrl,
     [kind |-> "showcase", name |-> "master-concept"],
     [kind |-> "school", name |-> "a"],
     [kind |-> "school", name |-> "b"]}

FallbackSlug == "linkedin-feed"

\* extract_slug_from_url: the name after /company/ or /showcase/, else the
\* generic name
extract_slug_from_url(url) ==
    IF url.kind \in {"company", "showcase"} THEN url.name ELSE FallbackSlug

CorruptFile == [kind |-> "corrupt"]

\* self.posts_file of a process: feed/<slug>_posts.json
FileAt(slug) == IF slug = Slug THEN posts_file ELSE other_files.posts_file

SlugOf(p) == extract_slug_from_url(racers[p].url)

race_mut_reload(p) ==
    [SavedFile(racers[p].posts, load_existing_posts(FileAt(SlugOf(p))),
               page_name, clock)
        EXCEPT !.slug = SlugOf(p)]

\* data of save_posts in process p
RaceDoc(p) ==
    [SavedFile(racers[p].posts, racers[p].existing_posts, page_name, clock)
        EXCEPT !.slug = SlugOf(p)]

\* the file of process p becomes f
WriteFile(p, f) ==
    IF SlugOf(p) = Slug
    THEN posts_file' = f /\ UNCHANGED other_files
    ELSE /\ other_files' = [other_files EXCEPT !.posts_file = f]
         /\ UNCHANGED posts_file

RaceRest ==
    UNCHANGED <<xml_file, clock, pc, runVars, decodeVars, procVars,
                success_count, failed_pages, batch, source>>

RacePosts ==
    {<<PostData(item, ResolveLink(item).link, ResolveLink(item).activity_id,
                1)>> : item \in {ItemA, ItemB, ItemD}}

InitRace ==
    /\ posts_file \in {None, EarlierFile}
    /\ xml_file = None
    /\ other_files = NoFiles
    /\ clock = 1
    /\ pc = "idle"
    /\ ScraperIdle
    /\ DecodeIdle
    /\ batch = NoBatch
    /\ source = <<>>
    /\ \E u1 \in {CompanyUrl, [kind |-> "school", name |-> "a"]},
          u2 \in Urls, p1, p2 \in RacePosts :
          racers = <<[url |-> u1, pc |-> "scraped", posts |-> p1,
                      existing_posts |-> <<>>, returncode |-> -1],
                     [url |-> u2, pc |-> "scraped", posts |-> p2,
                      existing_posts |-> <<>>, returncode |-> -1]>>

\* load_existing_posts in process p: json.load raises on a file that is
\* being written or is corrupt, and nothing catches it
RaceLoad(p) ==
    /\ racers[p].pc = "scraped"
    /\ LET f == FileAt(SlugOf(p))
       IN  IF f # None /\ f.kind \in {"partial", "corrupt"}
           THEN racers' = [racers EXCEPT ![p].pc = "exited",
                                         ![p].returncode = 1]
           ELSE racers' = [racers EXCEPT
                              ![p].pc = "merged",
                              ![p].existing_posts = load_existing_posts(f)]
    /\ UNCHANGED <<posts_file, other_files>>
    /\ RaceRest

\* open(self.posts_file, 'w') in process p: the file is truncated
RaceOpen(p) ==
    /\ racers[p].pc = "merged"
    /\ racers' = [racers EXCEPT ![p].pc = "opened"]
    /\ WriteFile(p, PartialFile(RaceDoc(p), 0))
    /\ RaceRest

\* the end of the with block in process p: the document is written from
\* the start of the file.  Over a document that another process has
\* written since this one opened the file, the result is this document, or
\* this document and the tail of a longer one
RaceClose(p) ==
    /\ racers[p].pc = "opened"
    /\ racers' = [racers EXCEPT ![p].pc = "done", ![p].returncode = 0]
    /\ LET f == FileAt(SlugOf(p))
       IN  IF f.kind = "partial"
           THEN WriteFile(p, RaceDoc(p))
           ELSE \E g \in {RaceDoc(p), CorruptFile} : WriteFile(p, g)
    /\ RaceRest

NextRace == \E p \in 1..2 : RaceLoad(p) \/ RaceOpen(p) \/ RaceClose(p)

SpecRace == InitRace /\ [][NextRace]_vars

(***************************************************************************)
(* SpecBatch: scrape_all_pages over the pages of pages_config.json.  The   *)
(* two subprocesses of a page are taken by their return codes.  batch is   *)
(* the record                                                              *)
(*   pages, force   the page list and the --force flag;                    *)
(*   i, pc          the position of the loop, and "page" (at the head of   *)
(*                  a turn), "rss" (the scraper returned 0) or "returned"; *)
(*   skipped_pages  the list of that name;                                 *)
(*   scrape_rc, rss_rc   for each page, the return code of its scraper and *)
(*                  of its generate_rss.py: -1 when it was not run;        *)
(*   succeeded, failed_at, skipped_at   the positions of the pages counted *)
(*                  in success_count, failed_pages and skipped_pages;      *)
(*   rc             the value returned.                                    *)
(***************************************************************************)
MaxPages == 3

PageConfigs ==
    {[slug |-> Slug, status |-> "active"],
     [slug |-> Slug, status |-> "paused"],
     [slug |-> "acme", status |-> "active"],
     [slug |-> "acme", status |-> "paused"],
     [slug |-> "acme", status |-> "archived"]}

ReturnCodes == {0, 1}

batch_mut_all_pages(success, npages, nskipped) ==
    IF success = npages THEN 0 ELSE 1

\* return 0 if success_count == active_pages else 1
BatchExitCode(success, npages, nskipped) ==
    IF success = npages - nskipped THEN 0 ELSE 1

InitBatch ==
    /\ posts_file = None
    /\ xml_file = None
    /\ clock = 0
    /\ pc = "idle"
    /\ ScraperIdle
    /\ DecodeIdle
    /\ racers = NoPeer
    /\ other_files = NoFiles
    /\ source = <<>>
    /\ \E pages \in SeqsUpTo(PageConfigs, MaxPages), force \in BOOLEAN :
          batch = [pages |-> pages, force |-> force, i |-> 1, pc |-> "page",
                   skipped_pages |-> <<>>,
                   scrape_rc |-> [k \in 1..Len(pages) |-> -1],
                   rss_rc |-> [k \in 1..Len(pages) |-> -1],
                   succeeded |-> {}, failed_at |-> {}, skipped_at |-> {},
                   rc |-> -1]

BatchRest ==
    UNCHANGED <<fileVars, clock, pc, runVars, decodeVars, procVars, racers,
                other_files, source>>

\* the page of this turn of the loop
BatchPage == batch.pages[batch.i]

\* if page['status'] == 'paused' and not force
IsSkipped(page, force) == page.status = "paused" /\ ~force

\* a turn for a paused page: it is listed in skipped_pages
BatchSkip ==
    /\ batch # NoBatch
    /\ batch.pc = "page"
    /\ batch.i <= Len(batch.pages)
    /\ IsSkipped(BatchPage, batch.force)
    /\ batch' = [batch EXCEPT
                    !.skipped_pages = Append(@, BatchPage.slug),
                    !.skipped_at = @ \cup {batch.i},
                    !.i = @ + 1]
    /\ UNCHANGED <<success_count, failed_pages>>
    /\ BatchRest

\* subprocess.run of linkedin_scraper.py and the test of its return code
BatchScrape ==
    /\ batch # NoBatch
    /\ batch.pc = "page"
    /\ batch.i <= Len(batch.pages)
    /\ ~IsSkipped(BatchPage, batch.force)
    /\ \E code \in ReturnCodes :
          IF code # 0
          THEN /\ failed_pages' = failed_pages \cup {BatchPage.slug}
               /\ batch' = [batch EXCEPT !.scrape_rc[batch.i] = code,
                                         !.failed_at = @ \cup {batch.i},
                                         !.i = @ + 1]
          ELSE /\ batch' = [batch EXCEPT !.scrape_rc[batch.i] = code,
                                         !.pc = "rss"]
               /\ UNCHANGED failed_pages
    /\ UNCHANGED success_count
    /\ BatchRest

\* subprocess.run of generate_rss.py and the test of its return code
BatchRss ==
    /\ batch # NoBatch
    /\ batch.pc = "rss"
    /\ \E code \in ReturnCodes :
          IF code # 0
          THEN /\ failed_pages' = failed_pages \cup {BatchPage.slug}
               /\ batch' = [batch EXCEPT !.rss_rc[batch.i] = code,
                                         !.failed_at = @ \cup {batch.i},
                                         !.pc = "page",
                                         !.i = @ + 1]
               /\ UNCHANGED success_count
          ELSE /\ success_count' = success_count + 1
               /\ batch' = [batch EXCEPT !.rss_rc[batch.i] = code,
                                         !.succeeded = @ \cup {batch.i},
                                         !.pc = "page",
                                         !.i = @ + 1]
               /\ UNCHANGED failed_pages
    /\ BatchRest

\* after the loop: generate_index.py, whose return code only gives a
\* warning, the summary and the return
BatchReturn ==
    /\ batch # NoBatch
    /\ batch.pc = "page"
    /\ batch.i > Len(batch.pages)
    /\ batch' = [batch EXCEPT
                    !.pc = "returned",
                    !.rc = BatchExitCode(success_count, Len(batch.pages),
                                         Len(batch.skipped_pages))]
    /\ UNCHANGED <<success_count, failed_pages>>
    /\ BatchRest

NextBatch == BatchSkip \/ BatchScrape \/ BatchRss \/ BatchReturn

SpecBatch == InitBatch /\ [][NextBatch]_vars

(***************************************************************************)
(* SpecRuns: the scraper run again and again for the slug, up to MaxRuns   *)
(* times, with generate_rss.py run or not run between two runs.  A run     *)
(* sees any page of RunsStreams, and scrape_posts may raise before the     *)
(* item loop, which makes it return [].                                    *)
(***************************************************************************)
MaxRuns == 3

\* the pages of SpecRuns: none, posts the earlier file has and has not,
\* a raising element, an element without a link, a post in other markup
\* the post of ItemD as the page gives it once its markup has an anchor
\* with the address of the post
ItemI == [ItemD EXCEPT !.anchors = <<Href("strict", Token(3), 0, TRUE)>>]

RunsStreams ==
    {<<>>, <<ItemA>>, <<ItemC>>, <<ItemD, ItemB>>, <<ItemE, ItemB>>,
     <<ItemB, ItemA, ItemD>>, <<ItemI>>}

\* a run of main: scrape_posts up to the item loop, or up to an exception
StartAgain ==
    /\ pc = "idle"
    /\ clock < MaxRuns
    /\ \E stream \in RunsStreams, title \in PageTitles, raised \in BOOLEAN :
          IF raised
          THEN /\ RunFails
               /\ clock' = clock + 1
               /\ target_post_link' = get_latest_post_link_from_xml(xml_file)
               /\ is_initial_run' =
                     IsInitialRun(get_latest_post_link_from_xml(xml_file))
               /\ before' = [posts_file |-> posts_file,
                             xml_file |-> xml_file]
               /\ UNCHANGED <<fileVars, max_posts_initial, page_name,
                              post_elements, idx, processed_count,
                              found_target, accepted_at, existing_posts,
                              decodeVars, scrolls, waited, returncode,
                              batchVars>>
          ELSE BeginRun(stream, 2, title)

\* the process has ended; the next one starts from a new scraper object
NextProcess ==
    /\ pc = "done"
    /\ pc' = "idle"
    /\ max_posts_initial' = MAX_POSTS_INITIAL
    /\ page_name' = ""
    /\ target_post_link' = None
    /\ is_initial_run' = TRUE
    /\ post_elements' = <<>>
    /\ idx' = 1
    /\ posts' = <<>>
    /\ processed_count' = 0
    /\ found_target' = FALSE
    /\ accepted_at' = <<>>
    /\ existing_posts' = <<>>
    /\ scrolls' = 0
    /\ waited' = 0
    /\ failed' = FALSE
    /\ returncode' = -1
    /\ before' = [posts_file |-> posts_file, xml_file |-> xml_file]
    /\ UNCHANGED <<fileVars, clock, decodeVars, batchVars>>

NextRuns == StartAgain \/ LoopStep \/ MainSave \/ GenerateFeed \/ NextProcess

SpecRuns == Init /\ [][NextRuns]_vars

(***************************************************************************)
(* SpecCycles: cycles of the scraper and generate_rss.py for the slug,     *)
(* from an empty disk, over a company page that only gets new posts at its *)
(* top.  source is the page, newest post first; a run renders its first    *)
(* posts, in CatchUp mode at least down to the post of the mark.           *)
(***************************************************************************)
MaxSource == 3

\* the posts a page may get: each resolves to a link, by strategy 1, 3, 4
\* and 3, and their published times come from the activity id, from a time
\* element and from the wall clock
CyclePool == {ItemA, ItemB, ItemD, ItemG}

\* the page gets new posts at its top
SourceGrows ==
    /\ pc = "idle"
    /\ Len(source) < MaxSource
    /\ \E item \in CyclePool :
          /\ \A i \in 1..Len(source) : source[i] # item
          /\ source' = <<item>> \o source
    /\ UNCHANGED <<fileVars, clock, pc, runVars, decodeVars, procVars,
                   success_count, failed_pages, racers, other_files, batch>>

\* the place on the page of the post whose link the feed has first, 0 when
\* the page has no such post
MarkPlace(target) ==
    IF target = None
         \/ \A i \in 1..Len(source) :
               ~IsTargetPost(ResolveLink(source[i]).link, target)
    THEN 0
    ELSE CHOOSE i \in 1..Len(source) :
            /\ IsTargetPost(ResolveLink(source[i]).link, target)
            /\ \A j \in 1..(i - 1) :
                  ~IsTargetPost(ResolveLink(source[j]).link, target)

\* how many posts the scrolls of a run may bring into the page
RenderLengths ==
    LET place == MarkPlace(get_latest_post_link_from_xml(xml_file))
    IN  IF place = 0 THEN 0..Len(source) ELSE place..Len(source)

\* a run of the scraper over the first posts of the page
StartCycle ==
    /\ pc = "idle"
    /\ clock < MaxRuns
    /\ \E k \in RenderLengths, m \in InitialSizes, title \in PageTitles :
          BeginRun(SubSeq(source, 1, k), m, title)

\* generate_rss.py after the scraper; the next scraper is a new process
CycleFeed ==
    /\ pc = "done"
    /\ pc' = "idle"
    /\ IF load_posts(posts_file).posts # <<>>
       THEN xml_file' = FeedOf(load_posts(posts_file).posts)
       ELSE UNCHANGED xml_file
    /\ max_posts_initial' = MAX_POSTS_INITIAL
    /\ page_name' = ""
    /\ target_post_link' = None
    /\ is_initial_run' = TRUE
    /\ post_elements' = <<>>
    /\ idx' = 1
    /\ posts' = <<>>
    /\ processed_count' = 0
    /\ found_target' = FALSE
    /\ accepted_at' = <<>>
    /\ existing_posts' = <<>>
    /\ scrolls' = 0
    /\ waited' = 0
    /\ failed' = FALSE
    /\ returncode' = -1
    /\ before' = [posts_file |-> posts_file, xml_file |-> xml_file']
    /\ UNCHANGED <<posts_file, clock, decodeVars, batchVars>>

InitCycles ==
    /\ posts_file = None
    /\ xml_file = None
    /\ clock = 0
    /\ pc = "idle"
    /\ RunIdle
    /\ DecodeIdle

NextCycles == SourceGrows \/ StartCycle \/ LoopStep \/ MainSave \/ CycleFeed

SpecCycles == InitCycles /\ [][NextCycles]_vars

(***************************************************************************)
(* Properties.                                                             *)
(***************************************************************************)
Range(q) == {q[i] : i \in 1..Len(q)}

\* save_posts has written the file in this run
Saved == pc \in {"done", "again"} /\ posts # <<>>

\* C1: the posts of the file that save_posts has written contain each link
\* at most once
C1_UniqueByLink ==
    Saved =>
        \A i, j \in 1..Len(posts_file.posts) :
            posts_file.posts[i].link = posts_file.posts[j].link => i = j

\* C2: the posts that save_posts writes are the new posts in their order,
\* followed by exactly the previously persisted posts whose link is no new
\* post's, in their previous order
C2_NewThenRetainedOld ==
    Saved =>
        posts_file.posts =
            posts \o SelectSeq(existing_posts,
                               LAMBDA e : \A i \in 1..Len(posts) :
                                             posts[i].link # e.link)

C2_Witness ==
    /\ Saved
    /\ Len(posts) >= 2
    /\ \E e \in Range(existing_posts) : e.link \in LinksOf(posts)
    /\ \E e \in Range(existing_posts) : e.link \notin LinksOf(posts)
    /\ Len(posts_file.posts) > Len(posts)

\* C3: a second save_posts with the same new posts, on the file the first
\* call wrote, writes the item sequence that the first call wrote
C3_Idempotent ==
    pc = "again" => posts_file.posts = existing_posts

C3_Witness ==
    /\ pc = "again"
    /\ posts # <<>>
    /\ \E i, j \in 1..Len(posts) : i # j /\ posts[i].link # posts[j].link
    /\ \E e \in Range(existing_posts) : e.link \notin LinksOf(posts)
    /\ \E i \in 1..Len(existing_posts) :
          i > Len(posts) /\ existing_posts[i].link \notin LinksOf(posts)

\* the element at position j resolves, without raising, to a link that
\* equals the high-water mark once both are normalized
IsBoundaryItem(j) ==
    /\ ~post_elements[j].raises
    /\ ResolveLink(post_elements[j]).link # None
    /\ NormalizeLink(ResolveLink(post_elements[j]).link)
          = NormalizeLink(target_post_link)

C7_LinkedOnly ==
    /\ \A i \in 1..Len(posts) : posts[i].link # None
    /\ \A p \in Range(load_existing_posts(posts_file)) : p.link # None
    /\ processed_count = Len(posts)
    /\ Len(accepted_at) = Len(posts)
    /\ \A i \in 1..Len(accepted_at) :
          /\ ResolveLink(post_elements[accepted_at[i]]).link # None
          /\ posts[i].link = ResolveLink(post_elements[accepted_at[i]]).link

\* a run that passed an element without a link and saved a later post
C7_Witness ==
    /\ Saved
    /\ \E j \in 1..Len(post_elements) :
          /\ j < idx
          /\ ~post_elements[j].raises
          /\ ResolveLink(post_elements[j]).link = None
          /\ \E i \in 1..Len(accepted_at) : accepted_at[i] > j

\* the element at position j has no selector text and a whole text shorter
\* than 10 characters
IsTextless(j) ==
    /\ SelectorText(post_elements[j].sel, 1).len = 0
    /\ post_elements[j].inner # None
    /\ post_elements[j].inner.len < MinInnerTextLen

\* the element at position j went through the loop body to its end, with a
\* link resolved for it
WasResolved(j) ==
    /\ j < idx
    /\ ~post_elements[j].raises
    /\ ResolveLink(post_elements[j]).link # None

\* C9 as stated: an element without selector text and with a whole text
\* shorter than 10 characters gives a post whose description is the "no
\* description" sentinel and whose title is the "no text" sentinel, and it
\* is accepted and persisted whenever a link was resolved for it
C9_SentinelTitle ==
    \A j \in 1..Len(post_elements) :
        IsTextless(j) /\ WasResolved(j) =>
            \E i \in 1..Len(posts) :
                /\ accepted_at[i] = j
                /\ posts[i].description = NoDescriptionText
                /\ posts[i].title = NoTextText
                /\ Saved => posts_file.posts[i] = posts[i]

\* C9 amended: such an element gives a post whose description and title
\* are both the "no description" sentinel; the "no text" sentinel is the
\* description and the title of the posts whose text is shorter than 5
\* characters; either post is accepted and persisted whenever a link was
\* resolved for its element
C9_SentinelFallback ==
    \A j \in 1..Len(post_elements) :
        WasResolved(j) =>
            \E i \in 1..Len(posts) :
                /\ accepted_at[i] = j
                /\ IsTextless(j) =>
                      /\ posts[i].description = NoDescriptionText
                      /\ posts[i].title = NoDescriptionText
                /\ ~IsTextless(j) /\ ExtractText(post_elements[j]).len
                                        < MinTitleTextLen =>
                      /\ posts[i].description = NoTextText
                      /\ posts[i].title = NoTextText
                /\ Saved => posts_file.posts[i] = posts[i]

\* a saved run that accepted an element of each kind
C9_Witness ==
    /\ Saved
    /\ \E j \in 1..Len(post_elements) : IsTextless(j) /\ WasResolved(j)
    /\ \E j \in 1..Len(post_elements) :
          /\ WasResolved(j)
          /\ ~IsTextless(j)
          /\ ExtractText(post_elements[j]).len < MinTitleTextLen

\* C10: a file that holds the bare list of the persisted posts and a file
\* that holds the dict with that list under "posts" are read as the same
\* item sequence by load_existing_posts and by load_posts, and give the
\* feed the same first link
C10_ShapeIndependent ==
    posts_file # None =>
        LET L      == posts_file.posts
            asList == [kind |-> "list", posts |-> L]
            asDict == [kind |-> "dict", page_name |-> "Acme Corp",
                       slug |-> Slug, updated_at |-> NowStamp(clock),
                       posts |-> L]
        IN  /\ load_existing_posts(asList) = L
            /\ load_existing_posts(asDict) = L
            /\ load_posts(asList).posts = L
            /\ load_posts(asDict).posts = L
            /\ get_latest_post_link_from_xml(
                   FeedOf(load_posts(asList).posts))
                 = get_latest_post_link_from_xml(
                       FeedOf(load_posts(asDict).posts))

\* a catch-up run that read a bare list, with the mark of the feed made
\* from it, and wrote the dict
C10_Witness ==
    /\ Saved
    /\ ~is_initial_run
    /\ existing_posts = LegacyFile.posts
    /\ target_post_link = LegacyPost.link
    /\ posts_file.kind = "dict"
    /\ Len(posts_file.posts) = Len(posts) + Len(existing_posts)

\* the epoch milliseconds of a decoded timestamp that has whole
\* milliseconds, None otherwise
EpochMillis(d) ==
    IF d = None THEN None
    ELSE IF d.us % MillisPerSecond # 0 THEN None
    ELSE [n |-> MulAdd(d.sec, MillisPerSecond, d.us \div MillisPerSecond)]

\* 2^33 seconds, in milliseconds: below it t / 1000 as a double gives back
\* every millisecond
ExactBelowMillis == MulPow2(SmallDigits(MillisPerSecond), 33)

\* C8 as stated: decoding the token (t << 22) | r yields the timestamp
\* whose epoch milliseconds are exactly t, for every t >= 0 and r < 2^22
C8_DecodeInverts ==
    pc = "decoded" => EpochMillis(decoded) = [n |-> tok.t]

\* C8 amended: decoding yields the timestamp of exactly t milliseconds when
\* t is less than 2^33 * 1000, or a whole number of seconds before the
\* year 10000; it yields no timestamp from the year 10000 on; the result
\* never depends on r
C8_DecodeInvertsInRange ==
    pc = "decoded" =>
        LET whole == DivSmall(tok.t, MillisPerSecond)
        IN  /\ Less(whole.q, MaxDatetimeSeconds)
                  \/ whole.q = MaxDatetimeSeconds
               => /\ decoded # None
                  /\ decoded.aware
                  /\ Less(tok.t, ExactBelowMillis) \/ whole.r = 0
                        => EpochMillis(decoded) = [n |-> tok.t]
            /\ Less(MaxDatetimeSeconds, whole.q) => decoded = None
            /\ decoded = decode_linkedin_activity_id(
                             Str(EncodeActivityId(tok.t, 0)))

\* the documented example, decoded
C8_Witness ==
    /\ pc = "decoded"
    /\ tok = [t |-> <<1, 4, 6, 0, 0, 0, 0, 0, 0, 0, 0, 0, 0, 0, 0>>,
              r |-> 12345]
    /\ decoded = [sec |-> <<1, 4, 6, 0, 0, 0, 0, 0, 0, 0, 0, 0>>, us |-> 0,
                  aware |-> TRUE]

\* every element of the page resolves to a link
AllResolve ==
    \A j \in 1..Len(post_elements) :
        /\ ~post_elements[j].raises
        /\ ResolveLink(post_elements[j]).link # None

\* C5: a finished initial run without a prior file, over n elements that
\* all resolve to a link, with max_posts_initial = m <= 100, has accepted
\* and persisted exactly the first min(n, m) elements
C5_BootstrapCap ==
    /\ pc = "done"
    /\ is_initial_run
    /\ existing_posts = <<>>
    /\ max_posts_initial <= MAX_POSTS_TO_SCRAPE
    /\ AllResolve
    => LET c == Min(Len(post_elements), max_posts_initial)
       IN  /\ processed_count = c
           /\ accepted_at = [i \in 1..c |-> i]
           /\ Len(posts) = c
           /\ \A i \in 1..c :
                 posts[i].link = ResolveLink(post_elements[i]).link
           /\ IF c = 0 THEN posts_file = None
              ELSE posts_file.posts = posts

\* 15 elements and max_posts_initial = 10: 10 posts persisted
C5_Witness ==
    /\ pc = "done"
    /\ is_initial_run
    /\ AllResolve
    /\ Len(post_elements) = 15
    /\ max_posts_initial = MAX_POSTS_INITIAL
    /\ posts_file # None
    /\ Len(posts_file.posts) = 10

\* C6: a run never accepts more than 100 posts, and once it has accepted
\* 100 the loop processes no further element: its position stays right
\* behind the element accepted last
C6_SafetyCeiling ==
    /\ processed_count <= MAX_POSTS_TO_SCRAPE
    /\ Len(posts) <= MAX_POSTS_TO_SCRAPE
    /\ processed_count = MAX_POSTS_TO_SCRAPE =>
          idx = accepted_at[MAX_POSTS_TO_SCRAPE] + 1

\* a catch-up run stopped by the ceiling with elements left on the page
C6_Witness ==
    /\ pc = "done"
    /\ ~is_initial_run
    /\ ~found_target
    /\ processed_count = MAX_POSTS_TO_SCRAPE
    /\ idx <= Len(post_elements)
    /\ Len(posts_file.posts) = MAX_POSTS_TO_SCRAPE + Len(existing_posts)

\* C11: a run in which navigation, scrolling or the element listing raised
\* returns no posts and leaves the posts file as it was when the run
\* started; so does a run that could not start its browser
C11_FailedRunKeepsFile ==
    /\ failed => posts = <<>> /\ posts_file = before.posts_file
    /\ pc = "exited" => posts_file = before.posts_file

\* a run with a prior file that failed while scrolling, after it ended
C11_Witness ==
    /\ pc = "recorded"
    /\ failed
    /\ scrolls > 0
    /\ scrolls < MaxScrolls(is_initial_run)
    /\ before.posts_file # None
    /\ posts_file = before.posts_file

\* C12 as stated: a run that succeeds with no new post rewrites the file
\* with the same posts and with updated_at set to the time of the run
C12_ZeroItemsStamp ==
    pc = "done" /\ ~failed /\ posts = <<>> /\ before.posts_file # None =>
        /\ posts_file.kind = "dict"
        /\ posts_file.posts = load_existing_posts(before.posts_file)
        /\ posts_file.updated_at = NowStamp(clock)

\* C12 amended: a run that succeeds with no new post does not write the
\* posts file: its posts and its updated_at stay as they were, and a file
\* that did not exist is not created
C12_ZeroItemsNoWrite ==
    pc = "done" /\ ~failed /\ posts = <<>> =>
        posts_file = before.posts_file

\* a catch-up run whose first element is the boundary, over a file that an
\* earlier run stamped
C12_Witness ==
    /\ pc = "done"
    /\ ~is_initial_run
    /\ found_target
    /\ idx = 1
    /\ posts = <<>>
    /\ posts_file.kind = "dict"
    /\ posts_file.updated_at # NowStamp(clock)

\* C13: after scrape_all_pages has handled the page, a run that failed as
\* a whole is in failed_pages and is no success, and a run that did not
\* is a success, whatever its elements raised
C13_FailureReported ==
    pc = "recorded" =>
        IF failed \/ returncode # 0
        THEN Slug \in failed_pages /\ success_count = 0
        ELSE failed_pages = {} /\ success_count = 1

\* C14 as stated: the run is an initial run exactly when no posts file
\* existed when it started
C14_ModeFromState ==
    pc # "idle" => (is_initial_run <=> before.posts_file = None)

\* C14 amended: at every step of a run, the mode is what the feed XML gave
\* when the run started: initial exactly when no first item link could be
\* read from it, whether or not a posts file existed, and incremental with
\* that link as the target otherwise
C14_ModeFromMark ==
    pc # "idle" =>
        /\ target_post_link = get_latest_post_link_from_xml(before.xml_file)
        /\ is_initial_run = (target_post_link = None)
        /\ ~is_initial_run => before.posts_file # None

\* an initial run over an existing posts file, after which the feed was
\* generated
C14_Witness ==
    /\ pc = "done"
    /\ is_initial_run
    /\ before.posts_file # None
    /\ before.xml_file = None
    /\ get_latest_post_link_from_xml(xml_file) # None

\* the published timestamps of L all parse and are all naive or all aware
Comparable(L) ==
    \A i, j \in 1..Len(L) :
        /\ L[i].published # Unparsable
        /\ L[j].published # Unparsable
        /\ L[i].published.aware = L[j].published.aware

\* L[k] is published later than L[j]
Later(L, k, j) == DateLt(L[j].published, L[k].published).lt

\* the feed on disk is the one generate_feed makes from the posts file
FeedIsCurrent ==
    /\ posts_file # None
    /\ posts_file.posts # <<>>
    /\ xml_file = FeedOf(load_posts(posts_file).posts)

\* C15 as stated: once a run has saved and the feed has been generated,
\* the mark that the next run reads is the link of the first persisted post
C15_MarkIsFirstItem ==
    Saved /\ FeedIsCurrent =>
        get_latest_post_link_from_xml(xml_file) = posts_file.posts[1].link

\* C15 amended: the mark is the link of a persisted post; when the
\* published timestamps are comparable it is the link of the post
\* published latest (of the last such post in the file on a tie), and so
\* the link of the first persisted post when that one is published later
\* than every other
C15_MarkIsLatestPublished ==
    Saved /\ FeedIsCurrent =>
        LET L == posts_file.posts
            M == get_latest_post_link_from_xml(xml_file)
        IN  /\ M \in LinksOf(L)
            /\ Comparable(L) =>
                  \E k \in 1..Len(L) :
                      /\ M = L[k].link
                      /\ \A j \in 1..Len(L) : ~Later(L, j, k)
                      /\ \A j \in (k + 1)..Len(L) : Later(L, k, j)
            /\ Comparable(L) /\ (\A j \in 2..Len(L) : Later(L, 1, j)) =>
                  M = L[1].link

\* a saved run and a feed whose comparable timestamps put another post
\* than the first on top
C15_Witness ==
    /\ Saved
    /\ FeedIsCurrent
    /\ Len(posts_file.posts) >= 2
    /\ Comparable(posts_file.posts)
    /\ get_latest_post_link_from_xml(xml_file) # posts_file.posts[1].link

\* a catch-up run whose loop ended without meeting the mark and that
\* accepted at least one post
PartialCatchUp ==
    /\ pc = "done"
    /\ ~is_initial_run
    /\ ~found_target
    /\ posts # <<>>

\* C18 as stated: a catch-up run that never reaches the boundary saves its
\* posts in front of the retained ones and, once the feed is generated,
\* the next run's mark is the newest post of that run
C18_PartialAdvancesMark ==
    PartialCatchUp =>
        /\ returncode = 0
        /\ SubSeq(posts_file.posts, 1, Len(posts)) = posts
        /\ FeedIsCurrent =>
              get_latest_post_link_from_xml(xml_file) = posts[1].link

\* C18 amended: such a run ends with status 0 and the file holds its posts
\* followed by the retained ones whose link it did not scrape again; once
\* the feed is generated the mark is the link of a persisted post, and it is
\* the first post of the run when the timestamps are comparable and that
\* post is published later than every other persisted post
C18_PartialPersists ==
    PartialCatchUp =>
        LET L == posts_file.posts
            M == get_latest_post_link_from_xml(xml_file)
        IN  /\ returncode = 0
            /\ ~failed
            /\ posts_file.kind = "dict"
            /\ SubSeq(L, 1, Len(posts)) = posts
            /\ \A i \in (Len(posts) + 1)..Len(L) :
                  /\ L[i].link \notin LinksOf(posts)
                  /\ \E j \in 1..Len(before.posts_file.posts) :
                        L[i] = before.posts_file.posts[j]
            /\ \A j \in 1..Len(before.posts_file.posts) :
                  before.posts_file.posts[j].link \in LinksOf(L)
            /\ FeedIsCurrent =>
                  /\ M \in LinksOf(L)
                  /\ Comparable(L) /\ (\A j \in 2..Len(L) : Later(L, 1, j))
                        => M = posts[1].link

\* a partial catch-up run with retained posts below its own, a current
\* feed, and a mark that is not the first post of the run
C18_Witness ==
    /\ PartialCatchUp
    /\ Len(posts_file.posts) > Len(posts)
    /\ FeedIsCurrent
    /\ get_latest_post_link_from_xml(xml_file) # posts[1].link

\* C16: when the process stops at any step of save_posts, the file holds
\* the complete prior state or the complete new merged state
C16_SaveAtomic ==
    pc = "crashed" =>
        \/ posts_file = before.posts_file
        \/ posts_file = SavedFile(posts,
                                  load_existing_posts(before.posts_file),
                                  page_name, clock)

\* C17: every run ends, and it never issues more than 5 scroll commands in
\* an initial run nor more than 20 in an incremental one
C17_RunEndsScrollsBounded ==
    /\ <>(pc \in {"done", "exited", "recorded"})
    /\ [](pc # "idle" =>
            scrolls <= IF is_initial_run THEN MaxScrollsInitial
                       ELSE MaxScrollsIncremental)

\* an incremental run that waited for the login until the timeout, issued
\* all of its 20 scroll commands and ended
C17_Witness ==
    /\ pc = "done"
    /\ ~is_initial_run
    /\ waited = MaxLoginWait
    /\ scrolls = MaxScrollsIncremental

\* the raw item that the j-th accepted post was made from
ItemOf(j) == post_elements[accepted_at[j]]

\* the link that strategy n gives on its own for the item, or None
StrategyLink(item, n) ==
    LET hrefs == item.anchors
        firstOf(S) == CHOOSE i \in S : \A k \in S : i <= k
        strict == {i \in 1..Len(hrefs) : hrefs[i].form = "strict"}
        loose  == {i \in 1..Len(hrefs) : hrefs[i].form \in {"strict", "loose"}}
    IN  CASE n = 1 -> IF item.urn # <<>> THEN item.html ELSE None
          [] n = 2 -> IF strict # {}
                      THEN [hrefs[firstOf(strict)] EXCEPT !.query = FALSE]
                      ELSE None
          [] n = 3 -> IF loose # {}
                      THEN [hrefs[firstOf(loose)] EXCEPT !.query = FALSE]
                      ELSE None
          [] n = 4 -> IF item.urn # <<>>
                      THEN [form |-> "update", id |-> item.urn,
                            tail |-> <<>>, slashes |-> 0, query |-> FALSE]
                      ELSE None

SameLink(a, b) ==
    /\ a.form = b.form
    /\ a.id = b.id
    /\ a.tail = b.tail
    /\ a.slashes = b.slashes
    /\ a.query = b.query

\* C19: the link of every accepted post is what the lowest-numbered
\* strategy that succeeds on its item gives, and every item processed
\* without an error that carries an activity token has been accepted with a
\* link
C19_LowestStrategyWins ==
    /\ \A j \in 1..Len(posts) :
          \E n \in 1..4 :
              /\ StrategyLink(ItemOf(j), n) # None
              /\ \A m \in 1..(n - 1) : StrategyLink(ItemOf(j), m) = None
              /\ SameLink(posts[j].link, StrategyLink(ItemOf(j), n))
    /\ \A i \in 1..(idx - 1) :
          post_elements[i].urn # <<>> /\ ~post_elements[i].raises =>
              \E j \in 1..Len(posts) :
                  accepted_at[j] = i /\ posts[j].link # None

\* an accepted post on whose item two strategies succeed with different
\* links
C19_Witness ==
    \E j \in 1..Len(posts) : \E n, m \in 1..4 :
        /\ n < m
        /\ StrategyLink(ItemOf(j), n) # None
        /\ StrategyLink(ItemOf(j), m) # None
        /\ StrategyLink(ItemOf(j), n) # StrategyLink(ItemOf(j), m)
        /\ posts[j].link = StrategyLink(ItemOf(j), n)

\* the activity token of the item of the j-th accepted post: the id of its
\* data-urn, or without a data-urn the id in the anchor that gave the link
TokenOf(j) ==
    IF ItemOf(j).urn # <<>> THEN ItemOf(j).urn
    ELSE posts[j].link.id \o posts[j].link.tail

\* C20: the published timestamp of every accepted post is the datetime
\* attribute of the first time element that has one; else the timestamp
\* decoded from the item's token; else, also when the token does not
\* decode, the wall-clock time of the scrape
C20_PublishedTiers ==
    \A j \in 1..Len(posts) :
        LET times == ItemOf(j).times
            attrs == {i \in 1..Len(times) : times[i] # None}
            dec   == IF TokenOf(j) = <<>> THEN None
                     ELSE decode_linkedin_activity_id(TokenOf(j))
        IN  IF attrs # {}
            THEN \E i \in attrs :
                    /\ \A k \in attrs : i <= k
                    /\ posts[j].published = times[i]
            ELSE IF dec # None
            THEN posts[j].published = dec
            ELSE posts[j].published = posts[j].scraped_at

\* the text selectors of the item that yield non-empty text
TextHits(item) ==
    {i \in 1..Len(item.sel) : item.sel[i] # None /\ item.sel[i].len > 0}

\* the item has a full visible text of at least 10 characters
HasInnerText(item) == item.inner # None /\ item.inner.len >= 10

\* C21 as stated: the description of every accepted post is the text of
\* the first text selector that yields non-empty text, whatever its length;
\* without one it is the full visible text when that has at least 10
\* characters and the "no description" sentinel otherwise
C21_BodyFromSelector ==
    \A j \in 1..Len(posts) :
        LET item == ItemOf(j)
        IN  IF TextHits(item) # {}
            THEN \E i \in TextHits(item) :
                    /\ \A k \in TextHits(item) : i <= k
                    /\ posts[j].description = item.sel[i]
            ELSE IF HasInnerText(item)
            THEN posts[j].description = item.inner
            ELSE posts[j].description.s = "[Post without text description]"

\* C21 amended: as above, except that a selector text of fewer than 5
\* characters is replaced by the "no text" sentinel
C21_BodyFromSelectorMin5 ==
    \A j \in 1..Len(posts) :
        LET item == ItemOf(j)
        IN  IF TextHits(item) # {}
            THEN \E i \in TextHits(item) :
                    /\ \A k \in TextHits(item) : i <= k
                    /\ IF item.sel[i].len >= 5
                       THEN posts[j].description = item.sel[i]
                       ELSE posts[j].description.s = "[Post without text]"
            ELSE IF HasInnerText(item)
            THEN posts[j].description = item.inner
            ELSE posts[j].description.s = "[Post without text description]"

\* an accepted post whose first non-empty selector text, found after an
\* empty one, has fewer than 5 characters
C21_Witness ==
    \E j \in 1..Len(posts) : \E i \in TextHits(ItemOf(j)) :
        /\ \A k \in TextHits(ItemOf(j)) : i <= k
        /\ ItemOf(j).sel[i].len < 5
        /\ \E k \in 1..(i - 1) : ItemOf(j).sel[k] # None
        /\ posts[j].description.s = "[Post without text]"

\* the srcs among srcs that are on the media host and are no company logo
\* and no profile picture
KeptOf(srcs) ==
    {srcs[k] : k \in {k \in 1..Len(srcs) : srcs[k].media /\ ~srcs[k].icon}}

\* where x comes first in srcs
FirstSeen(srcs, x) ==
    CHOOSE k \in 1..Len(srcs) :
        srcs[k] = x /\ \A m \in 1..(k - 1) : srcs[m] # x

\* images holds the kept srcs of srcs, each once, in first-seen order
IsMediaOf(images, srcs) ==
    /\ Range(images) = KeptOf(srcs)
    /\ \A a, b \in 1..Len(images) :
          a < b => FirstSeen(srcs, images[a]) < FirstSeen(srcs, images[b])

\* C22 as stated: the images of every accepted post are the kept srcs of
\* the first image selector that finds an element, and none when that
\* selector's elements are all filtered out
C22_MediaFromFirstCandidates ==
    \A j \in 1..Len(posts) :
        LET imgs == ItemOf(j).imgs
            found == {i \in 1..Len(imgs) : imgs[i] # <<>>}
        IN  IF found = {} THEN posts[j].images = <<>>
            ELSE \E i \in found :
                    /\ \A k \in found : i <= k
                    /\ IsMediaOf(posts[j].images, imgs[i])

\* C22 amended: the images are the kept srcs of the first image selector
\* that has a kept src, and none when no selector has one
C22_MediaFromFirstKept ==
    \A j \in 1..Len(posts) :
        LET imgs == ItemOf(j).imgs
            keeps == {i \in 1..Len(imgs) : KeptOf(imgs[i]) # {}}
        IN  IF keeps = {} THEN posts[j].images = <<>>
            ELSE \E i \in keeps :
                    /\ \A k \in keeps : i <= k
                    /\ IsMediaOf(posts[j].images, imgs[i])

\* an accepted post whose first image selector finds only a logo and whose
\* images come from a later selector that finds a src twice
C22_Witness ==
    \E j \in 1..Len(posts) :
        LET imgs == ItemOf(j).imgs
        IN  /\ imgs[1] # <<>>
            /\ KeptOf(imgs[1]) = {}
            /\ posts[j].images # <<>>
            /\ \E i \in 2..Len(imgs) :
                  /\ IsMediaOf(posts[j].images, imgs[i])
                  /\ Len(posts[j].images) < Len(imgs[i]) - 1

\* the loop is at an element whose processing raises, and no exit
\* condition holds
AtRaisingElement ==
    /\ pc = "loop"
    /\ idx <= Len(post_elements)
    /\ post_elements[idx].raises
    /\ processed_count < MAX_POSTS_TO_SCRAPE
    /\ ~(is_initial_run /\ processed_count >= max_posts_initial)
    /\ ~found_target

\* C23: a step at an element that raises accepts nothing, leaves the
\* count as it is and goes on to the next element, in the loop; no step
\* goes back to an earlier element; and the accepted posts are made from
\* elements at increasing positions, none of which raises
C23_SkipAndContinue ==
    [][/\ AtRaisingElement =>
            /\ idx' = idx + 1
            /\ pc' = "loop"
            /\ posts' = posts
            /\ processed_count' = processed_count
            /\ accepted_at' = accepted_at
       /\ pc = "loop" /\ pc' = "loop" => idx' >= idx
       /\ Len(accepted_at') = Len(posts')
       /\ processed_count' = Len(posts')
       /\ \A j \in 1..Len(posts') :
            /\ accepted_at'[j] \in 1..Len(post_elements')
            /\ ~post_elements'[accepted_at'[j]].raises
            /\ j > 1 => accepted_at'[j - 1] < accepted_at'[j]]_vars

\* a run that skipped an element that raised and accepted a later one
C23_Witness ==
    \E i \in 1..Len(post_elements) : \E j \in 1..Len(posts) :
        /\ post_elements[i].raises
        /\ i < idx
        /\ accepted_at[j] > i

\* the two processes run for the same slug and both have ended with
\* status 0
BothSucceeded ==
    /\ racers # NoPeer
    /\ SlugOf(1) = SlugOf(2)
    /\ \A p \in 1..2 : racers[p].pc = "done" /\ racers[p].returncode = 0

\* C24: when two runs for one slug have both ended with success, the file
\* is what one of them wrote from its own, possibly stale, reading of the
\* file (that run's posts and then the posts it had loaded), or it is
\* corrupt; nothing makes a run wait for the other
C24_LastWriterWins ==
    BothSucceeded =>
        LET f == FileAt(SlugOf(1))
        IN  \/ f = CorruptFile
            \/ \E p \in 1..2 :
                  /\ f.kind = "dict"
                  /\ f.slug = SlugOf(p)
                  /\ f.posts = MergePosts(racers[p].posts,
                                          racers[p].existing_posts)

\* both runs have succeeded and the file is a complete document that lacks
\* a post that one of the two accepted
C24_Witness ==
    /\ BothSucceeded
    /\ FileAt(SlugOf(1)).kind = "dict"
    /\ \E p \in 1..2 : \E j \in 1..Len(racers[p].posts) :
          racers[p].posts[j].link \notin LinksOf(FileAt(SlugOf(1)).posts)

\* C25: a step of a run for one address leaves the state file of every
\* run for a different address as it is
C25_OtherSourceUntouched ==
    [][\A p, q \in 1..2 :
          /\ racers[p].url # racers[q].url
          /\ racers'[p] # racers[p]
          => FileAt(SlugOf(q))' = FileAt(SlugOf(q))]_vars

\* C26: the wait for the login ends; while it lasts the time waited grows
\* by 3 seconds a poll and never passes 180 seconds; and the wait is left
\* without a login seen only at 180 seconds, for the page (or for the
\* handler of scrape_posts when opening the page raises), never for the
\* end of the process
C26_LoginWaitEnds ==
    /\ (pc = "login") ~> (pc # "login")
    /\ [](waited <= MaxLoginWait)
    /\ [][/\ pc = "login" /\ waited' # waited => waited' = waited + 3
          /\ pc = "login" /\ pc' \notin {"login", "relogin"} =>
                /\ waited = 180
                /\ pc' = "page" \/ (pc' = "scraped" /\ failed')
                /\ returncode' = -1]_vars

\* a run that waited the whole 180 seconds for the login, went on and
\* saved posts
C26_Witness ==
    /\ waited = MaxLoginWait
    /\ ~failed
    /\ pc = "done"
    /\ returncode = 0
    /\ posts # <<>>
    /\ posts_file # before.posts_file

\* C27: the pages before the position of the loop are each counted in
\* exactly one of success, failed and skipped; only a paused page without
\* force is skipped and such a page is never scraped; generate_rss.py is
\* run only after a scraper that returned 0; and the value returned is 0
\* exactly when every page that was not skipped had both return codes 0
C27_BatchOutcome ==
    batch # NoBatch =>
        LET n == Len(batch.pages)
            done == 1..(batch.i - 1)
            paused(k) == batch.pages[k].status = "paused" /\ ~batch.force
        IN  /\ batch.succeeded \cup batch.failed_at \cup batch.skipped_at
                  = done
            /\ batch.succeeded \cap batch.failed_at = {}
            /\ batch.succeeded \cap batch.skipped_at = {}
            /\ batch.failed_at \cap batch.skipped_at = {}
            /\ success_count = Cardinality(batch.succeeded)
            /\ \A k \in 1..n :
                  /\ k \in batch.skipped_at <=> k \in done /\ paused(k)
                  /\ paused(k) => batch.scrape_rc[k] = -1
                  /\ batch.rss_rc[k] # -1 => batch.scrape_rc[k] = 0
                  /\ batch.scrape_rc[k] # 0 => batch.rss_rc[k] = -1
                  /\ k \in batch.succeeded <=>
                        batch.scrape_rc[k] = 0 /\ batch.rss_rc[k] = 0
            /\ batch.pc = "returned" =>
                  (batch.rc = 0 <=>
                      \A k \in 1..n :
                          k \notin batch.skipped_at =>
                              batch.scrape_rc[k] = 0 /\ batch.rss_rc[k] = 0)

\* scrape_all_pages has returned 0 over a list with a skipped page and a
\* page that completed both steps
C27_Witness ==
    /\ batch # NoBatch
    /\ batch.pc = "returned"
    /\ batch.rc = 0
    /\ batch.skipped_at # {}
    /\ batch.succeeded # {}

\* the links of the posts a state file holds
FileLinks(file) == LinksOf(load_existing_posts(file))

\* the positions of the list L whose post has the link
PlacesOf(L, link) == {k \in 1..Len(L) : L[k].link = link}

\* C28: no step of any run takes a link out of the state file, and a save
\* whose new posts repeat a link of the file keeps, for that link, the new
\* posts at their places and nothing else
C28_LinksNeverShrink ==
    [][/\ FileLinks(posts_file) \subseteq FileLinks(posts_file')
       /\ posts_file' # posts_file =>
             LET old == load_existing_posts(posts_file)
                 new == load_existing_posts(posts_file')
             IN  \A link \in LinksOf(posts) \cap LinksOf(old) :
                     /\ PlacesOf(new, link) = PlacesOf(posts, link)
                     /\ \A k \in PlacesOf(new, link) : new[k] = posts[k]
                     /\ \A k \in PlacesOf(old, link) : old[k] \notin Range(new)
      ]_vars

\* a second or later run has saved a new version of a post the file had
C28_Witness ==
    /\ pc = "done"
    /\ clock >= 2
    /\ posts # <<>>
    /\ LinksOf(posts) \cap FileLinks(before.posts_file) # {}
    /\ FileLinks(before.posts_file) \ LinksOf(posts) # {}
    /\ FileLinks(before.posts_file) \subseteq FileLinks(posts_file)

\* the activity id that the link of a post or of the mark carries
LinkToken(link) == link.id

\* C29: in a CatchUp run, no accepted item resolves to a link with the
\* activity id of the mark, whatever the forms of the two links
C29_BoundaryByToken ==
    pc \in {"loop", "scraped", "done"} /\ ~is_initial_run =>
        \A j \in 1..Len(posts) :
            LinkToken(posts[j].link) # LinkToken(target_post_link)

\* the places of the page whose post the state file holds
Persisted(file, page) ==
    {i \in 1..Len(page) : ResolveLink(page[i]).link \in FileLinks(file)}

\* the number of posts of the page below the lowest one the file holds
Depth(file, page) ==
    Len(page) - (CHOOSE i \in Persisted(file, page) :
                    \A j \in Persisted(file, page) : j <= i)

\* C30: when a run has ended, the state file holds the posts of the page
\* from the top down without a gap, and once the file holds posts the
\* lowest post it holds stays the same post of the page
C30_NoPostMissed ==
    /\ [](pc = "done" =>
             Persisted(posts_file, source)
                 = 1..Cardinality(Persisted(posts_file, source)))
    /\ [][Persisted(posts_file, source) # {} =>
             /\ Persisted(posts_file', source') # {}
             /\ Depth(posts_file', source') = Depth(posts_file, source)]_vars

\* a CatchUp run has ended that accepted a new post and, because the mark
\* was not the newest post of the file, a post the file already had
C30_Witness ==
    /\ pc = "done"
    /\ source # <<>>
    /\ ~is_initial_run
    /\ LinksOf(posts) \cap FileLinks(before.posts_file) # {}
    /\ LinksOf(posts) \ FileLinks(before.posts_file) # {}
    /\ Persisted(posts_file, source) = 1..Len(source)
====
